---- MODULE Spec2Model ----
(***************************************************************************)
(* Verification model of hwp_mcp_cursor: the HWP controller's grid fill,   *)
(* the document builders and the batch dispatcher of the MCP stdio server. *)
(* The word processor itself (the COM object behind HwpController.hwp) is  *)
(* modelled as a table with a relative cursor and a log of the calls it    *)
(* received.                                                               *)
(***************************************************************************)
EXTENDS Integers, Sequences, FiniteSets, TLC

VARIABLES
    ctrls,            \* the HwpController objects created so far: [is_hwp_running, hwp]
    hwp_controller,   \* server global: 0 (None) or the index of a controller in ctrls
    hwp_table_tools,  \* server global: 0 (None) or the index of the controller the
                      \* HwpTableTools instance holds
    hwp,              \* the local `hwp` of the tool call being served: 0 or an index
    pc,               \* "idle", "fill" (inside fill_table_with_data), "batch" (inside
                      \* the loop of hwp_batch_operations), "done"
    req,              \* the tool call being served and its arguments
    result,           \* what the tool call returned
    prog,             \* backend calls fill_table_with_data has still to issue
    calls,            \* backend calls that completed during this tool call
    raised,           \* the first backend call that raised during this tool call, if any
    swallowed,        \* how many raised calls set_font_style caught during this tool call
    tableRows, tableCols, cells, cursor, sel, bold   \* the backend's table

vars == <<ctrls, hwp_controller, hwp_table_tools, hwp, pc, req, result,
          prog, calls, raised, swallowed, tableRows, tableCols, cells, cursor, sel, bold>>

session == <<ctrls, hwp_controller, hwp_table_tools>>
backend == <<tableRows, tableCols, cells, cursor, sel, bold>>

\* ------------------------------------------------------------------ bounds
MaxDim == 2       \* tables up to MaxDim x MaxDim, data up to MaxDim rows of 0..MaxDim cells
MaxSwallowed == 1 \* backend calls that raise inside a controller method that catches
                  \* the exception (set_font_style, insert_text, ...), per tool call
MaxTextLen == 5   \* characters of a text handed to the segmentation
MaxElements == 2  \* elements of a document specification
MaxOps == 2       \* operations of a batch
MaxLevel == 7     \* leading '#' of a heading line

\* ------------------------------------------------------------- small helpers
Rep(n, x) == [k \in 1..n |-> x]

RECURSIVE Flatten(_)
Flatten(ss) == IF ss = <<>> THEN <<>> ELSE Head(ss) \o Flatten(Tail(ss))

\* The cursor below the table, behind n texts inserted there.
Below(n) == [r |-> 0, c |-> n]
Outside == Below(0)
At(r, c) == [r |-> r, c |-> c]
InTable(cur) == cur.r >= 1

\* What a cell of a freshly created (or earlier filled) table holds.
OldText == [i |-> 0, j |-> 0, b |-> FALSE]

\* ------------------------------------------------ fill_table_with_data: calls
\* A backend call issued for data cell (i, j) (1-based; 0 when not for a cell).
Call(op, i, j, arg) == [op |-> op, i |-> i, j |-> j, arg |-> arg]

\* hwp_controller.py 629-633: the anchor sequence.
AnchorCalls ==
    << Call("TableSelCell", 0, 0, FALSE), Call("TableSelTable", 0, 0, FALSE),
       Call("Cancel", 0, 0, FALSE), Call("TableSelCell", 0, 0, FALSE),
       Call("Cancel", 0, 0, FALSE) >>

\* hwp_controller.py 636-640: advance to (start_row, start_col).
StartCalls(start_row, start_col) ==
    Rep(start_row - 1, Call("TableLowerCell", 0, 0, FALSE))
    \o Rep(start_col - 1, Call("TableRightCell", 0, 0, FALSE))

\* hwp_controller.py 649-659: the insert, between two set_font_style calls in a header row.
InsertCalls(i, j, has_header) ==
    IF has_header /\ i = 1
    THEN << Call("CharShape", i, j, TRUE), Call("InsertText", i, j, FALSE),
            Call("CharShape", i, j, FALSE) >>
    ELSE << Call("InsertText", i, j, FALSE) >>

\* hwp_controller.py 662-663: move right unless this is the row's last cell.
AdvanceCalls(data, i, j) ==
    IF j - 1 < Len(data[i]) - 1 THEN << Call("TableRightCell", i, j, FALSE) >> ELSE <<>>

\* hwp_controller.py 644-663: one cell.
CellCalls(data, i, j, has_header) ==
    << Call("TableSelCell", i, j, FALSE), Call("Delete", i, j, FALSE) >>
    \o InsertCalls(i, j, has_header)
    \o AdvanceCalls(data, i, j)

\* Mutant of NextRowCalls: the row change forgets to walk back to the first column.
NextRowCallsNoReturn(data, i) ==
    IF i - 1 < Len(data) - 1 THEN << Call("TableLowerCell", i, 0, FALSE) >> ELSE <<>>

\* hwp_controller.py 666-669: back to the first column and one row down.
NextRowCalls(data, i) ==
    IF i - 1 < Len(data) - 1
    THEN Rep(Len(data[i]) - 1, Call("TableLeftCell", i, 0, FALSE))
         \o << Call("TableLowerCell", i, 0, FALSE) >>
    ELSE <<>>

\* hwp_controller.py 643-669: one data row.
RowCalls(data, i, has_header) ==
    Flatten([j \in 1..Len(data[i]) |-> CellCalls(data, i, j, has_header)])
    \o NextRowCalls(data, i)

\* Mutant of ExitCalls: the fill ends without the final move down.
ExitCallsNoMoveDown ==
    << Call("TableSelCell", 0, 0, FALSE), Call("Cancel", 0, 0, FALSE) >>

\* hwp_controller.py 672-674: leave the table.
ExitCalls ==
    << Call("TableSelCell", 0, 0, FALSE), Call("Cancel", 0, 0, FALSE),
       Call("MoveDown", 0, 0, FALSE) >>

\* hwp_controller.py 626-674: every backend call of a fill, in program order.
FillCalls(data, start_row, start_col, has_header) ==
    << Call("GetPos", 0, 0, FALSE) >>
    \o AnchorCalls
    \o StartCalls(start_row, start_col)
    \o Flatten([i \in 1..Len(data) |-> RowCalls(data, i, has_header)])
    \o ExitCalls

\* set_font_style (hwp_controller.py 267-304) catches what its backend calls raise
\* and returns False, which fill_table_with_data ignores.
Swallowed(call) == call.op = "CharShape"

\* ------------------------------------------------------- the backend's table
\* The text an InsertText for data cell (i, j) leaves: the cell's value, bold or not.
Text(i, j, b) == [i |-> i, j |-> j, b |-> b]

FreshCells(R, C) == [p \in (1..R) \X (1..C) |-> << OldText >>]

\* hwp_controller.py 637, 669: "TableLowerCell" moves one row down; in the last row
\* there is no lower cell.
LowerOutcomes(R, C, cur) ==
    IF ~InTable(cur) THEN {cur}
    ELSE IF cur.r < R THEN {At(cur.r + 1, cur.c)} ELSE {cur}

\* hwp_controller.py 640, 663: "TableRightCell" moves one cell right; what it does in
\* the last column is the backend's choice (stay, or wrap to the next row).
RightOutcomes(R, C, cur) ==
    IF ~InTable(cur) THEN {cur}
    ELSE IF cur.c < C THEN {At(cur.r, cur.c + 1)}
    ELSE {cur} \cup (IF cur.r < R THEN {At(cur.r + 1, 1)} ELSE {})

\* hwp_controller.py 668: "TableLeftCell" moves one cell left; what it does in the
\* first column is the backend's choice (stay, or wrap to the previous row).
LeftOutcomes(R, C, cur) ==
    IF ~InTable(cur) THEN {cur}
    ELSE IF cur.c > 1 THEN {At(cur.r, cur.c - 1)}
    ELSE {cur} \cup (IF cur.r > 1 THEN {At(cur.r - 1, C)} ELSE {})

\* hwp_controller.py 674: "MoveDown" moves one line down: into the next row, or out
\* of the table below its last row.
MoveDownOutcomes(R, C, cur) ==
    IF ~InTable(cur) THEN {cur}
    ELSE IF cur.r < R THEN {At(cur.r + 1, cur.c)} ELSE {Outside}

\* hwp_controller.py 629-633, 646-647, 652-654: the backend states call `c` can leave
\* from backend state b = [cells, cursor, sel, bold] of an R x C table.
\* InsertText puts its text at the cursor and leaves the cursor behind it, in a cell
\* or in the body of the document; the selection calls do nothing outside a table.
ExecOutcomes(c, R, C, b) ==
    CASE c.op = "GetPos" -> {b}
      [] c.op = "TableSelCell" ->
            {[b EXCEPT !.sel = IF InTable(b.cursor) THEN "cell" ELSE "none"]}
      [] c.op = "TableSelTable" ->
            {[b EXCEPT !.sel = IF InTable(b.cursor) THEN "table" ELSE "none"]}
      [] c.op = "Cancel" ->
            {[b EXCEPT !.sel = "none",
                       !.cursor = IF b.sel = "table" THEN At(1, 1) ELSE b.cursor]}
      [] c.op = "Delete" ->
            {IF b.sel = "cell" /\ InTable(b.cursor)
             THEN [b EXCEPT !.sel = "none",
                            !.cells[<<b.cursor.r, b.cursor.c>>] = <<>>]
             ELSE b}
      [] c.op = "InsertText" ->
            {IF InTable(b.cursor)
             THEN [b EXCEPT !.sel = "none",
                            !.cells[<<b.cursor.r, b.cursor.c>>] =
                                Append(@, Text(c.i, c.j, b.bold))]
             ELSE [b EXCEPT !.cursor = Below(b.cursor.c + 1)]}
      [] c.op = "CharShape" -> {[b EXCEPT !.bold = c.arg]}
      [] c.op = "TableLowerCell" ->
            {[b EXCEPT !.cursor = n, !.sel = "none"] : n \in LowerOutcomes(R, C, b.cursor)}
      [] c.op = "TableRightCell" ->
            {[b EXCEPT !.cursor = n, !.sel = "none"] : n \in RightOutcomes(R, C, b.cursor)}
      [] c.op = "TableLeftCell" ->
            {[b EXCEPT !.cursor = n, !.sel = "none"] : n \in LeftOutcomes(R, C, b.cursor)}
      [] c.op = "MoveDown" ->
            {[b EXCEPT !.cursor = n, !.sel = "none"] : n \in MoveDownOutcomes(R, C, b.cursor)}

Backend == [cells |-> cells, cursor |-> cursor, sel |-> sel, bold |-> bold]

SetBackend(b) ==
    /\ cells' = b.cells
    /\ cursor' = b.cursor
    /\ sel' = b.sel
    /\ bold' = b.bold

\* ------------------------------------------------------------- tool results
NoResult == [tool |-> "none", status |-> "none", message |-> ""]
NoReq == [tool |-> "none"]

\* The data of a request: row i has lens[i] cells, cell (i, j) holds value (i, j).
DataOf(lens) == [i \in 1..Len(lens) |-> [j \in 1..lens[i] |-> <<i, j>>]]

Shapes == UNION {[1..n -> 0..MaxDim] : n \in 0..MaxDim}

\* ------------------------------------------- HwpTableTools.fill_table_with_data
\* hwp_table_tools.py 212-231 and hwp_controller.py 621-626: the checks before the
\* first backend call.
FillStart ==
    /\ pc = "idle"
    /\ hwp_table_tools # 0
    /\ \E lens \in Shapes, start_row \in 1..tableRows, start_col \in 1..tableCols,
          has_header \in BOOLEAN :
         LET data == DataOf(lens) IN
         /\ req' = [tool |-> "fill", data |-> data, start_row |-> start_row,
                    start_col |-> start_col, has_header |-> has_header]
         /\ IF Len(data) = 0
            THEN /\ pc' = "done"
                 /\ prog' = <<>>
                 /\ result' = [tool |-> "fill", status |-> "error",
                               message |-> "Error: Data is required"]
            ELSE IF ~ctrls[hwp_table_tools].is_hwp_running
            THEN /\ pc' = "done"
                 /\ prog' = <<>>
                 /\ result' = [tool |-> "fill", status |-> "False",
                               message |-> "fill failed"]
            ELSE /\ pc' = "fill"
                 /\ prog' = FillCalls(data, start_row, start_col, has_header)
                 /\ result' = NoResult
    /\ calls' = <<>>
    /\ raised' = <<>>
    /\ swallowed' = 0
    /\ UNCHANGED <<session, hwp, backend>>

\* The record of raised calls keeps the first call that raised.
Raise(log, call) ==
    IF log = <<>> THEN << [op |-> call.op, i |-> call.i, j |-> call.j] >> ELSE log

\* One backend call of the fill completes.
FillStep ==
    /\ pc = "fill"
    /\ prog # <<>>
    /\ \E nb \in ExecOutcomes(Head(prog), tableRows, tableCols, Backend) : SetBackend(nb)
    /\ calls' = Append(calls, [op |-> Head(prog).op, i |-> Head(prog).i,
                               j |-> Head(prog).j, at |-> cursor])
    /\ prog' = Tail(prog)
    /\ UNCHANGED <<session, hwp, pc, req, result, raised, swallowed, tableRows, tableCols>>

\* hwp_controller.py 678-680, hwp_table_tools.py 236-238: a backend call raises in the
\* body of fill_table_with_data: the fill returns False.
FillRaise ==
    /\ pc = "fill"
    /\ prog # <<>>
    /\ ~Swallowed(Head(prog))
    /\ raised' = Raise(raised, Head(prog))
    /\ prog' = <<>>
    /\ pc' = "done"
    /\ result' = [tool |-> "fill", status |-> "False", message |-> "fill failed"]
    /\ UNCHANGED <<session, hwp, req, calls, swallowed, backend>>

\* hwp_controller.py 302-304, 651, 655: a backend call raises inside set_font_style,
\* which returns False; the fill goes on.
FillRaiseInSetFontStyle ==
    /\ pc = "fill"
    /\ prog # <<>>
    /\ Swallowed(Head(prog))
    /\ swallowed < MaxSwallowed
    /\ swallowed' = swallowed + 1
    /\ raised' = Raise(raised, Head(prog))
    /\ prog' = Tail(prog)
    /\ UNCHANGED <<session, hwp, pc, req, result, calls, backend>>

\* hwp_controller.py 676, hwp_table_tools.py 233-235: all calls issued.
FillReturn ==
    /\ pc = "fill"
    /\ prog = <<>>
    /\ pc' = "done"
    /\ result' = [tool |-> "fill", status |-> "True", message |-> "filled"]
    /\ UNCHANGED <<session, hwp, req, prog, calls, raised, swallowed, backend>>

\* A connected server whose cursor is in the first cell of a table just created
\* (hwp_controller.py 339-355), or whose controller is not running.
InitFill ==
    /\ \E running \in BOOLEAN :
          ctrls = << [is_hwp_running |-> running, hwp |-> IF running THEN "com" ELSE "None"] >>
    /\ hwp_controller = 1
    /\ hwp_table_tools = 1
    /\ hwp = 0
    /\ pc = "idle"
    /\ req = NoReq
    /\ result = NoResult
    /\ prog = <<>>
    /\ calls = <<>>
    /\ raised = <<>>
    /\ swallowed = 0
    /\ tableRows \in 1..MaxDim
    /\ tableCols \in 1..MaxDim
    /\ cells = FreshCells(tableRows, tableCols)
    /\ cursor = At(1, 1)
    /\ sel = "none"
    /\ bold = FALSE

NextFill == FillStart \/ FillStep \/ FillRaise \/ FillRaiseInSetFontStyle \/ FillReturn

SpecFill == InitFill /\ [][NextFill]_vars

\* ------------------------------------------------------- claims about the fill
IsFill == req.tool = "fill"

\* The data fits inside the table from (start_row, start_col).
Fits ==
    /\ req.start_row + Len(req.data) - 1 <= tableRows
    /\ \A i \in 1..Len(req.data) : req.start_col + Len(req.data[i]) - 1 <= tableCols

\* The data is a full tableRows x tableCols rectangle written from the first cell.
FullRectangle ==
    /\ req.start_row = 1
    /\ req.start_col = 1
    /\ Len(req.data) = tableRows
    /\ \A i \in 1..Len(req.data) : Len(req.data[i]) = tableCols

\* How many completed backend calls of kind op were issued for a data cell.
CellCallCount(op) == Cardinality({k \in 1..Len(calls) : calls[k].op = op /\ calls[k].i > 0})

\* The table cell that data cell (i, j) belongs in.
Target(i, j) == At(req.start_row + i - 1, req.start_col + j - 1)

\* Data cell a comes before data cell b in row-major order.
RowMajorBefore(a, b) == a.i < b.i \/ (a.i = b.i /\ a.j < b.j)

Writes == SelectSeq(calls, LAMBDA c : c.op = "InsertText")

\* C1: filling a fresh R x C table with R x C data from (1, 1) selects, deletes and
\* inserts exactly R*C times, and a successful fill leaves the cursor outside the table.
C1_FullFillWritesEachCellAndExits ==
    (pc = "done" /\ IsFill /\ result.status = "True" /\ FullRectangle)
    => /\ CellCallCount("InsertText") = tableRows * tableCols
       /\ CellCallCount("TableSelCell") = tableRows * tableCols
       /\ CellCallCount("Delete") = tableRows * tableCols
       /\ cursor = Outside

C1_Witness ==
    /\ pc = "done" /\ IsFill /\ result.status = "True" /\ FullRectangle
    /\ tableRows = 2 /\ tableCols = 2
    /\ Len(Writes) = 4

\* C2: when the data (ragged or not) fits, every insert for data cell (i, j) happens
\* with the cursor in table cell (start_row+i-1, start_col+j-1), inserts follow the
\* row-major order of the data, every data row starts and ends its return with the
\* cursor in column start_col, and a successful fill leaves each data value, alone,
\* in its cell.
C2_FillRowMajorIntoTargets ==
    (IsFill /\ Fits)
    => /\ \A k \in 1..Len(Writes) : Writes[k].at = Target(Writes[k].i, Writes[k].j)
       /\ \A k \in 1..Len(Writes), l \in 1..Len(Writes) :
               k < l => RowMajorBefore(Writes[k], Writes[l])
       /\ (pc = "fill" /\ prog # <<>> /\ Head(prog).i > 0
             /\ ( (Head(prog).op = "TableSelCell" /\ Head(prog).j = 1)
                  \/ Head(prog).op = "TableLowerCell" ))
            => cursor.c = req.start_col
       /\ (pc = "done" /\ result.status = "True")
            => \A i \in 1..Len(req.data) : \A j \in 1..Len(req.data[i]) :
                  /\ Len(cells[<<Target(i, j).r, Target(i, j).c>>]) = 1
                  /\ cells[<<Target(i, j).r, Target(i, j).c>>][1].i = i
                  /\ cells[<<Target(i, j).r, Target(i, j).c>>][1].j = j

\* A ragged fill (two cells, then one) has been completed.
C2_Witness ==
    /\ pc = "done" /\ IsFill /\ Fits /\ result.status = "True"
    /\ Len(req.data) = 2
    /\ Len(req.data[1]) = 2 /\ Len(req.data[2]) = 1
    /\ Len(Writes) = 3

\* The backend call that raised belongs to the writing of a data cell.
RaisedWhileWriting ==
    /\ raised # <<>>
    /\ raised[1].i > 0
    /\ raised[1].op \in {"TableSelCell", "Delete", "CharShape", "InsertText"}

\* C5 (as claimed): a backend call that raises while a data cell is being written
\* stops the fill at once (nothing more is issued) and the fill reports failure.
C5_RaiseWhileWritingStopsFillWithFailure ==
    (IsFill /\ RaisedWhileWriting) => (pc = "done" /\ result.status = "False")

\* ============================================================ text segmentation
\* Texts are sequences of one-character strings.
NL == "\n"
Bullet == "@"     \* stands for the bullet character U+2022
Whitespace == {" ", NL}

RECURSIVE LStrip(_)
LStrip(s) == IF s # <<>> /\ Head(s) \in Whitespace THEN LStrip(Tail(s)) ELSE s

RECURSIVE RStrip(_)
RStrip(s) ==
    IF s # <<>> /\ s[Len(s)] \in Whitespace THEN RStrip(SubSeq(s, 1, Len(s) - 1)) ELSE s

\* str.strip()
Strip(s) == RStrip(LStrip(s))

\* hwp_mcp_stdio_server.py 743: `if line.strip()`.
NonBlank(line) == Strip(line) # <<>>

\* str.split('\n'): the pieces between newlines, empty pieces kept.
RECURSIVE SplitLines(_)
SplitLines(s) ==
    IF \A k \in 1..Len(s) : s[k] # NL THEN << s >>
    ELSE LET k == CHOOSE k \in 1..Len(s) :
                      s[k] = NL /\ \A m \in 1..(k - 1) : s[m] # NL
         IN << SubSeq(s, 1, k - 1) >> \o SplitLines(SubSeq(s, k + 1, Len(s)))

\* Mutant of BlocksLoop: a blank line no longer closes the current block.
RECURSIVE BlocksLoopMerging(_, _, _)
BlocksLoopMerging(lines, current_block, blocks) ==
    IF lines = <<>>
    THEN IF current_block # <<>> THEN Append(blocks, current_block) ELSE blocks
    ELSE IF NonBlank(Head(lines))
         THEN BlocksLoopMerging(Tail(lines), Append(current_block, Head(lines)), blocks)
         ELSE BlocksLoopMerging(Tail(lines), current_block, blocks)

\* hwp_mcp_stdio_server.py 742-752: the loop over the lines and the final flush.
RECURSIVE BlocksLoop(_, _, _)
BlocksLoop(lines, current_block, blocks) ==
    IF lines = <<>>
    THEN IF current_block # <<>> THEN Append(blocks, current_block) ELSE blocks
    ELSE IF NonBlank(Head(lines))
         THEN BlocksLoop(Tail(lines), Append(current_block, Head(lines)), blocks)
         ELSE IF current_block # <<>>
              THEN BlocksLoop(Tail(lines), <<>>, Append(blocks, current_block))
              ELSE BlocksLoop(Tail(lines), current_block, blocks)

\* hwp_mcp_stdio_server.py 735-752: content -> blocks.
BlocksOf(content) == BlocksLoop(SplitLines(content), <<>>, <<>>)

\* A title argument: absent (None) or a text, possibly empty.
NoTitle == [given |-> FALSE, text |-> <<>>]
TitleOf(text) == [given |-> TRUE, text |-> text]

\* Python truthiness of the title argument.
Truthy(title) == title.given /\ title.text # <<>>

\* Mutant of TitleAndBody: the first line becomes the title but stays in the body.
TitleAndBodyKeepingLine(title, blocks) ==
    IF ~Truthy(title) /\ blocks # <<>>
    THEN [title |-> TitleOf(blocks[1][1]), blocks |-> blocks]
    ELSE [title |-> title, blocks |-> blocks]

\* hwp_mcp_stdio_server.py 754-761: the title and the blocks left for the body.
TitleAndBody(title, blocks) ==
    IF ~Truthy(title) /\ blocks # <<>>
    THEN [title |-> TitleOf(blocks[1][1]),
          blocks |-> IF Len(blocks[1]) > 1
                     THEN [blocks EXCEPT ![1] = Tail(blocks[1])]
                     ELSE Tail(blocks)]
    ELSE [title |-> title, blocks |-> blocks]

\* =================================================== plans of controller calls
\* A call of a HwpController method made by a document builder.
PCall(op, size, b, it, text, rows, cols) ==
    [op |-> op, size |-> size, bold |-> b, italic |-> it, text |-> text,
     rows |-> rows, cols |-> cols]

SetFont(size, b, it) == PCall("set_font", size, b, it, <<>>, 0, 0)
InsertText(text) == PCall("insert_text", 0, FALSE, FALSE, text, 0, 0)
InsertParagraph == PCall("insert_paragraph", 0, FALSE, FALSE, <<>>, 0, 0)
InsertTable(rows, cols) == PCall("insert_table", 0, FALSE, FALSE, <<>>, rows, cols)
SaveDocument(filename) == PCall("save_document", 0, FALSE, FALSE, filename, 0, 0)
CreateNewDocument == PCall("create_new_document", 0, FALSE, FALSE, <<>>, 0, 0)

MaxUnclamped(a, b) == b

Max(a, b) == IF a >= b THEN a ELSE b

\* str.startswith(('-', '*', bullet))
BulletChars == {"-", "*", Bullet}
StartsWithBullet(line) == line # <<>> /\ Head(line) \in BulletChars

\* hwp_mcp_stdio_server.py 780-785: the number of leading '#'.
RECURSIVE HeadingLevel(_)
HeadingLevel(line) ==
    IF line # <<>> /\ Head(line) = "#" THEN 1 + HeadingLevel(Tail(line)) ELSE 0

\* '\n'.join(block)
RECURSIVE JoinLines(_)
JoinLines(block) ==
    IF block = <<>> THEN <<>>
    ELSE IF Len(block) = 1 THEN block[1]
    ELSE block[1] \o << NL >> \o JoinLines(Tail(block))

HeadingPlanWithoutRest(block) ==
    LET first_line == Strip(block[1])
        level == HeadingLevel(first_line)
        heading_text == Strip(SubSeq(first_line, level + 1, Len(first_line)))
        font_size == Max(11, 16 - (level - 1))
    IN << SetFont(font_size, TRUE, FALSE), InsertText(heading_text), InsertParagraph >>

\* hwp_mcp_stdio_server.py 779-800: a heading block.
HeadingPlan(block) ==
    LET first_line == Strip(block[1])
        level == HeadingLevel(first_line)
        heading_text == Strip(SubSeq(first_line, level + 1, Len(first_line)))
        font_size == Max(11, 16 - (level - 1))
    IN << SetFont(font_size, TRUE, FALSE), InsertText(heading_text), InsertParagraph >>
       \o (IF Len(block) > 1
           THEN << SetFont(11, FALSE, FALSE) >>
                \o Flatten([k \in 1..(Len(block) - 1) |->
                              << InsertText(block[k + 1]), InsertParagraph >>])
           ELSE <<>>)

BulletLineTextKeepingPrefix(line) ==
    LET line_stripped == Strip(line)
    IN IF StartsWithBullet(line_stripped)
       THEN << Bullet, " " >> \o line_stripped
       ELSE line_stripped

\* hwp_mcp_stdio_server.py 806-811: one line of a bullet block.
BulletLineText(line) ==
    LET line_stripped == Strip(line)
    IN IF StartsWithBullet(line_stripped)
       THEN << Bullet, " " >> \o Strip(Tail(line_stripped))
       ELSE line_stripped

\* hwp_mcp_stdio_server.py 803-812: a bullet block.
BulletPlan(block) ==
    << SetFont(11, FALSE, FALSE) >>
    \o Flatten([k \in 1..Len(block) |->
                  << InsertText(BulletLineText(block[k])), InsertParagraph >>])

\* hwp_mcp_stdio_server.py 815-819: a block whose lines stay separate.
LinesPlan(block) ==
    << SetFont(11, FALSE, FALSE) >>
    \o Flatten([k \in 1..Len(block) |-> << InsertText(block[k]), InsertParagraph >>])

\* hwp_mcp_stdio_server.py 822-826: a block inserted as one text.
ParagraphPlan(block) ==
    << SetFont(11, FALSE, FALSE), InsertText(JoinLines(block)), InsertParagraph >>

\* hwp_mcp_stdio_server.py 774-829: one block, by the look of its first line.
BlockPlan(block, preserve_linebreaks) ==
    LET first_line == IF block # <<>> THEN Strip(block[1]) ELSE <<>>
    IN (IF first_line # <<>> /\ Head(first_line) = "#" THEN HeadingPlan(block)
        ELSE IF StartsWithBullet(first_line) THEN BulletPlan(block)
        ELSE IF preserve_linebreaks THEN LinesPlan(block)
        ELSE ParagraphPlan(block))
       \o << InsertParagraph >>

VerbatimPlanSkippingBlank(lines) ==
    << SetFont(11, FALSE, FALSE) >>
    \o Flatten([k \in 1..Len(lines) |->
                  IF NonBlank(lines[k]) THEN << InsertText(lines[k]), InsertParagraph >>
                  ELSE <<>>])

\* hwp_mcp_stdio_server.py 832-837: no formatting, every line its own paragraph.
VerbatimPlan(lines) ==
    << SetFont(11, FALSE, FALSE) >>
    \o Flatten([k \in 1..Len(lines) |->
                  (IF NonBlank(lines[k]) THEN << InsertText(lines[k]) >> ELSE <<>>)
                  \o << InsertParagraph >>])

\* hwp_mcp_stdio_server.py 763-769: the title.
TitlePlan(title) ==
    IF Truthy(title)
    THEN << SetFont(16, TRUE, FALSE), InsertText(title.text), InsertParagraph,
            InsertParagraph >>
    ELSE <<>>

\* hwp_mcp_stdio_server.py 735-837: the controller calls that render a text.
FromTextPlan(content, title, format_content, preserve_linebreaks) ==
    LET tb == TitleAndBody(title, BlocksOf(content))
    IN TitlePlan(tb.title)
       \o (IF format_content
           THEN Flatten([k \in 1..Len(tb.blocks) |->
                           BlockPlan(tb.blocks[k], preserve_linebreaks)])
           ELSE VerbatimPlan(SplitLines(content)))

\* ------------------------------------------- the segmentation as a pure function
Chars == {"a", " ", "#", "-", NL}

TextsUpTo(n) == UNION {[1..k -> Chars] : k \in 0..n}

Titles == {NoTitle, TitleOf(<<>>), TitleOf(<< "t" >>)}

NoTable ==
    /\ tableRows = 0
    /\ tableCols = 0
    /\ cells = FreshCells(0, 0)
    /\ cursor = Outside
    /\ sel = "none"
    /\ bold = FALSE

NoFill ==
    /\ prog = <<>>
    /\ calls = <<>>
    /\ raised = <<>>
    /\ swallowed = 0

\* The arguments of one hwp_create_document_from_text call.
InitText ==
    /\ ctrls = <<>>
    /\ hwp_controller = 0
    /\ hwp_table_tools = 0
    /\ hwp = 0
    /\ pc = "idle"
    /\ \E content \in TextsUpTo(MaxTextLen), title \in Titles,
          format_content \in BOOLEAN, preserve_linebreaks \in BOOLEAN :
          req = [tool |-> "segment", content |-> content, title |-> title,
                 format_content |-> format_content,
                 preserve_linebreaks |-> preserve_linebreaks]
    /\ result = NoResult
    /\ NoFill
    /\ NoTable

\* hwp_mcp_stdio_server.py 735-837: lines, blocks, title, body blocks and the calls.
Segment ==
    /\ pc = "idle"
    /\ req.tool = "segment"
    /\ pc' = "done"
    /\ result' = [tool |-> "segment", status |-> "none", message |-> "",
                  lines |-> SplitLines(req.content),
                  blocks |-> BlocksOf(req.content),
                  title |-> TitleAndBody(req.title, BlocksOf(req.content)).title,
                  body |-> TitleAndBody(req.title, BlocksOf(req.content)).blocks,
                  plan |-> FromTextPlan(req.content, req.title, req.format_content,
                                        req.preserve_linebreaks)]
    /\ UNCHANGED <<session, hwp, req, prog, calls, raised, swallowed, backend>>

NextText == Segment

SpecText == InitText /\ [][NextText]_vars

Segmented == pc = "done" /\ req.tool = "segment"

\* The maximal runs of non-blank lines of `lines`, as <<first, last>> index pairs.
Runs(lines) ==
    {p \in (1..Len(lines)) \X (1..Len(lines)) :
        /\ p[1] <= p[2]
        /\ \A k \in p[1]..p[2] : Strip(lines[k]) # <<>>
        /\ (p[1] = 1 \/ Strip(lines[p[1] - 1]) = <<>>)
        /\ (p[2] = Len(lines) \/ Strip(lines[p[2] + 1]) = <<>>)}

\* C9: the blocks are exactly the maximal runs of consecutive non-blank lines of the
\* input, in input order: the k-th block is the k-th run, so no block is empty or holds
\* a blank line, runs apart are never merged and several blank lines make one boundary.
C9_BlocksAreMaximalNonBlankRuns ==
    Segmented =>
        /\ Len(result.blocks) = Cardinality(Runs(result.lines))
        /\ \A p \in Runs(result.lines) :
              result.blocks[1 + Cardinality({q \in Runs(result.lines) : q[1] < p[1]})]
                 = SubSeq(result.lines, p[1], p[2])

\* Two runs separated by two blank lines.
C9_Witness ==
    /\ Segmented
    /\ Len(result.lines) = 4
    /\ NonBlank(result.lines[1])
    /\ ~NonBlank(result.lines[2])
    /\ ~NonBlank(result.lines[3])
    /\ NonBlank(result.lines[4])
    /\ Len(result.blocks) = 2

\* C10: without a title (absent or empty) and with at least one block, the title is
\* the first line of the first block and exactly that line leaves the body (the first
\* block is dropped when it had only that line); with a title no line is removed.
C10_TitleIsFirstLineRemovedFromBody ==
    Segmented =>
        IF Truthy(req.title)
        THEN result.title = req.title /\ result.body = result.blocks
        ELSE IF result.blocks = <<>>
        THEN result.body = <<>> /\ ~Truthy(result.title)
        ELSE /\ result.title.text = result.blocks[1][1]
             /\ Flatten(result.body) = Tail(Flatten(result.blocks))
             /\ IF Len(result.blocks[1]) = 1
                THEN result.body = Tail(result.blocks)
                ELSE /\ Len(result.body) = Len(result.blocks)
                     /\ result.body[1] = Tail(result.blocks[1])
                     /\ \A k \in 2..Len(result.blocks) : result.body[k] = result.blocks[k]

\* No title given, a one-line first block and a second block: the first block is dropped.
C10_Witness ==
    /\ Segmented
    /\ ~req.title.given
    /\ Len(result.blocks) = 2
    /\ Len(result.blocks[1]) = 1
    /\ result.body = << result.blocks[2] >>
    /\ result.title.text = result.blocks[1][1]

\* ================================================================ table data
\* Python values: str and int by their characters, list and tuple by their items.
PyVal(type, str, items) == [type |-> type, str |-> str, items |-> items]
PyStr(text) == PyVal("str", text, <<>>)
PyInt(digits) == PyVal("int", digits, <<>>)
PyNone == PyVal("NoneType", <<>>, <<>>)
PyList(items) == PyVal("list", <<>>, items)
PyTuple(items) == PyVal("tuple", <<>>, items)
\* A dict by its items in insertion order, an item by its key and its value.
PyDict(items) == PyVal("dict", <<>>, items)
PyItem(key, value) == PyVal("item", <<>>, << PyStr(key), value >>)

\* key in d, d[key], and d after d[key] = value.
HasKey(d, key) == \E k \in 1..Len(d.items) : d.items[k].items[1].str = key
Lookup(d, key) ==
    d.items[CHOOSE k \in 1..Len(d.items) : d.items[k].items[1].str = key].items[2]
SetItem(d, key, value) ==
    IF HasKey(d, key)
    THEN PyDict([k \in 1..Len(d.items) |->
                    IF d.items[k].items[1].str = key THEN PyItem(key, value)
                    ELSE d.items[k]])
    ELSE PyDict(Append(d.items, PyItem(key, value)))

\* bool(data) as `if data:` takes it.
PyTruthy(v) ==
    IF v.type \in {"list", "tuple", "dict"} THEN v.items # <<>>
    ELSE IF v.type = "NoneType" THEN FALSE
    ELSE v.str # <<>> /\ v # PyInt(<< "0" >>)

\* len(v) raises TypeError for a value without a length.
HasLen(v) == v.type \in {"list", "tuple", "str", "dict"}

Quote == "\""
Digits == {"1", "2"}

NoParse == [ok |-> FALSE, value |-> PyNone, rest |-> <<>>]
Parsed(value, rest) == [ok |-> TRUE, value |-> value, rest |-> rest]

\* json.loads and ast.literal_eval on texts of digits, brackets, commas, blanks,
\* letters, and for JSON also null and double-quoted strings without escapes: the value
\* at the head of the text and the text after it. py selects the Python syntax, where
\* a list may end with a comma. String literals of the Python syntax are left out,
\* and so are its dict and set displays. JSON objects are read by JsonValue.
RECURSIVE ParseValue(_, _)
RECURSIVE ParseItems(_, _, _)
ParseValue(s0, py) ==
    LET s == LStrip(s0)
    IN IF s = <<>> THEN NoParse
       ELSE IF s[1] \in Digits
       THEN LET k == CHOOSE k \in 1..Len(s) :
                         /\ \A m \in 1..k : s[m] \in Digits
                         /\ k = Len(s) \/ s[k + 1] \notin Digits
            IN Parsed(PyInt(SubSeq(s, 1, k)), SubSeq(s, k + 1, Len(s)))
       ELSE IF s[1] = "[" THEN ParseItems(Tail(s), <<>>, py)
       ELSE IF ~py /\ s[1] = Quote
       THEN IF \E k \in 2..Len(s) : s[k] = Quote
            THEN LET k == CHOOSE k \in 2..Len(s) :
                              s[k] = Quote /\ \A m \in 2..(k - 1) : s[m] # Quote
                 IN Parsed(PyStr(SubSeq(s, 2, k - 1)), SubSeq(s, k + 1, Len(s)))
            ELSE NoParse
       ELSE IF ~py /\ Len(s) >= 4 /\ SubSeq(s, 1, 4) = << "n", "u", "l", "l" >>
       THEN Parsed(PyNone, SubSeq(s, 5, Len(s)))
       ELSE NoParse

\* After '[' or after a comma of a list: the closing bracket or the next item.
ParseItems(s0, items, py) ==
    LET s == LStrip(s0)
    IN IF s = <<>> THEN NoParse
       ELSE IF s[1] = "]"
       THEN IF items = <<>> \/ py THEN Parsed(PyList(items), Tail(s)) ELSE NoParse
       ELSE LET v == ParseValue(s, py)
                r == LStrip(v.rest)
            IN IF ~v.ok \/ r = <<>> THEN NoParse
               ELSE IF r[1] = "]" THEN Parsed(PyList(Append(items, v.value)), Tail(r))
               ELSE IF r[1] = "," THEN ParseItems(Tail(r), Append(items, v.value), py)
               ELSE NoParse

\* A JSON text that may be an object, with objects as values of its members: the
\* value at the head of the text and the text after it. Objects inside lists are
\* left out.
RECURSIVE JsonValue(_)
RECURSIVE ParseMembers(_, _)

\* After a member of a JSON object: the closing brace, or a comma and the next member.
MemberEnd(r, d) ==
    IF r = <<>> THEN NoParse
    ELSE IF r[1] = "}" THEN Parsed(d, Tail(r))
    ELSE IF r[1] = "," THEN ParseMembers(Tail(r), d)
    ELSE NoParse

\* After the colon of a member: its value; a repeated key keeps its last value.
MemberValue(key, v, d) ==
    IF ~v.ok THEN NoParse ELSE MemberEnd(LStrip(v.rest), SetItem(d, key, v.value))

\* After the key of a member: a colon.
MemberColon(key, colon, d) ==
    IF ~key.ok \/ key.value.type # "str" \/ colon = <<>> THEN NoParse
    ELSE IF colon[1] # ":" THEN NoParse
    ELSE MemberValue(key.value.str, JsonValue(Tail(colon)), d)

MemberKey(key, d) == MemberColon(key, LStrip(key.rest), d)

\* After '{' or after a comma of a JSON object: the closing brace of an empty
\* object, or a string, a colon and a value.
ParseMembers(s0, d) ==
    IF LStrip(s0) = <<>> THEN NoParse
    ELSE IF Head(LStrip(s0)) = "}"
    THEN IF d.items = <<>> THEN Parsed(d, Tail(LStrip(s0))) ELSE NoParse
    ELSE MemberKey(ParseValue(LStrip(s0), FALSE), d)

JsonValue(s0) ==
    IF LStrip(s0) # <<>> /\ Head(LStrip(s0)) = "{"
    THEN ParseMembers(Tail(LStrip(s0)), PyDict(<<>>))
    ELSE ParseValue(s0, FALSE)

\* json.loads(command_string): one value, blanks around it allowed, nothing after it.
JsonLoadsCommand(command_string) ==
    LET r == JsonValue(command_string)
    IN IF r.ok /\ LStrip(r.rest) = <<>> THEN r ELSE NoParse

\* json.loads(data): one value, blanks around it allowed, nothing after it.
JsonLoads(data) ==
    LET r == ParseValue(data, FALSE)
    IN IF r.ok /\ LStrip(r.rest) = <<>> THEN r ELSE NoParse

\* ast.literal_eval(data): leading blanks are stripped; the text is an expression
\* list, read here as the items between brackets: one item without a comma after it
\* is that value, otherwise the items are a tuple; no item is a syntax error.
LiteralEval(data) ==
    LET r == ParseItems(data \o << "]" >>, <<>>, TRUE)
        t == RStrip(data)
    IN IF ~r.ok \/ r.rest # <<>> \/ r.value.items = <<>> THEN NoParse
       ELSE IF Len(r.value.items) = 1 /\ t[Len(t)] # ","
       THEN Parsed(r.value.items[1], <<>>)
       ELSE Parsed(PyTuple(r.value.items), <<>>)

\* repr(v), and json.dumps(v) when json is set.
RECURSIVE Dump(_, _)
RECURSIVE DumpItems(_, _)
Dump(v, json) ==
    IF v.type = "str"
    THEN (IF json THEN << Quote >> ELSE << "'" >>) \o v.str
             \o (IF json THEN << Quote >> ELSE << "'" >>)
    ELSE IF v.type = "int" THEN v.str
    ELSE IF v.type = "NoneType"
    THEN (IF json THEN << "n", "u", "l", "l" >> ELSE << "N", "o", "n", "e" >>)
    ELSE IF v.type = "item"
    THEN Dump(v.items[1], json) \o << ":", " " >> \o Dump(v.items[2], json)
    ELSE IF v.type = "dict" THEN << "{" >> \o DumpItems(v.items, json) \o << "}" >>
    ELSE IF v.type = "tuple" /\ ~json
    THEN << "(" >> \o DumpItems(v.items, json)
             \o (IF Len(v.items) = 1 THEN << "," >> ELSE <<>>) \o << ")" >>
    ELSE << "[" >> \o DumpItems(v.items, json) \o << "]" >>

DumpItems(items, json) ==
    IF items = <<>> THEN <<>>
    ELSE Dump(Head(items), json)
             \o (IF Len(items) > 1 THEN << ",", " " >> \o DumpItems(Tail(items), json)
                 ELSE <<>>)

JsonDumps(v) == Dump(v, TRUE)

\* str(v)
Str(v) == IF v.type = "str" THEN v.str ELSE Dump(v, FALSE)

\* The name type(v) prints.
TypeName(v) == << "<class '", v.type, "'>" >>

\* data.split(","): the pieces between commas, empty pieces kept.
RECURSIVE SplitCommas(_)
SplitCommas(s) ==
    IF \A k \in 1..Len(s) : s[k] # "," THEN << s >>
    ELSE LET k == CHOOSE k \in 1..Len(s) :
                      s[k] = "," /\ \A m \in 1..(k - 1) : s[m] # ","
         IN << SubSeq(s, 1, k - 1) >> \o SplitCommas(SubSeq(s, k + 1, Len(s)))

\* The two phrases of the special case at hwp_mcp_stdio_server.py 1147, each one piece
\* of a text.
OneToTen == "<1 to 10>"
Vertical == "<vertical>"

\* str(i) for i in range(1, 11)
StrOfIndex(i) == IF i < 10 THEN << ToString(i) >> ELSE << ToString(i \div 10), ToString(i % 10) >>

\* hwp_mcp_stdio_server.py 1160-1167: the text split at its commas, each piece
\* stripped and alone in its row, or the whole text as the only cell.
SplitTableUntrimmed(data) ==
    IF \E k \in 1..Len(data) : data[k] = ","
    THEN PyList([k \in 1..Len(SplitCommas(data)) |->
                    PyList(<< PyStr(SplitCommas(data)[k]) >>)])
    ELSE PyList(<< PyList(<< PyStr(data) >>) >>)

SplitTable(data) ==
    IF \E k \in 1..Len(data) : data[k] = ","
    THEN PyList([k \in 1..Len(SplitCommas(data)) |->
                    PyList(<< PyStr(Strip(SplitCommas(data)[k])) >>)])
    ELSE PyList(<< PyList(<< PyStr(data) >>) >>)

\* What a parse gives: a value, or the message the tool returns.
Value(v) == [error |-> FALSE, message |-> <<>>, value |-> v]
ParseError(message) == [error |-> TRUE, message |-> message, value |-> PyNone]

\* hwp_mcp_stdio_server.py 1134-1171, data being a str. The f-string logged after
\* json.loads takes len() of the value: the TypeError of a value without a length is
\* not a JSONDecodeError and reaches the except at 1169. After literal_eval the same
\* TypeError is caught by the bare except at 1158.
ParseData(data) ==
    LET j == JsonLoads(data)
        l == LiteralEval(data)
    IN IF j.ok
       THEN IF HasLen(j.value) THEN Value(j.value)
            ELSE ParseError(<< "Error: ", "Failed to parse data - ", "object of type '",
                               j.value.type, "' has no len()" >>)
       ELSE IF (\E k \in 1..Len(data) : data[k] = OneToTen)
                /\ (\E k \in 1..Len(data) : data[k] = Vertical)
       THEN Value(PyList([i \in 1..10 |-> PyList(<< PyStr(StrOfIndex(i)) >>)]))
       ELSE IF l.ok /\ HasLen(l.value) THEN Value(l.value)
       ELSE Value(SplitTable(data))

\* hwp_mcp_stdio_server.py 1183-1193 and 449-459: a row that is not a list becomes
\* [row]; every cell becomes str(cell), None the empty string.
FinalData(processed_data) ==
    PyList([i \in 1..Len(processed_data.items) |->
               LET row == IF processed_data.items[i].type = "list"
                          THEN processed_data.items[i].items
                          ELSE << processed_data.items[i] >>
               IN PyList([k \in 1..Len(row) |->
                             PyStr(IF row[k].type = "NoneType" THEN <<>>
                                   ELSE Str(row[k]))])])

\* hwp_table_tools.py 221-228: a row that is not a list becomes [str(row)].
ProcessedData(data_list) ==
    PyList([i \in 1..Len(data_list.items) |->
               LET row == IF data_list.items[i].type = "list"
                          THEN data_list.items[i].items
                          ELSE << PyStr(Str(data_list.items[i])) >>
               IN PyList([k \in 1..Len(row) |->
                             PyStr(IF row[k].type = "NoneType" THEN <<>>
                                   ELSE Str(row[k]))])])

\* hwp_controller.py 608-623: the controller's fill as one call with its data; it
\* returns False when the controller is not running or a step raises.
FillTableWithData(data) ==
    PCall("fill_table_with_data", 0, FALSE, FALSE, <<>>, 0, 0) @@ [data |-> data]

\* hwp_table_tools.py 199-241: the message returned and the calls made.
TableToolsFillTableWithData(c, data_list) ==
    IF ~PyTruthy(data_list)
    THEN {[message |-> << "Error: ", "Data is required" >>, calls |-> <<>>]}
    ELSE {[message |-> IF ok THEN << "<table data entered>" >>
                       ELSE << "<entering the table data failed>" >>,
           calls |-> << [call |-> FillTableWithData(ProcessedData(data_list)),
                         ok |-> ok] >>]
          : ok \in (IF c.is_hwp_running THEN BOOLEAN ELSE {FALSE})}

\* hwp_table_tools.py 36-58
TableToolsInsertTable(c, rows, cols) ==
    {[message |-> IF ok
                  THEN << "Table inserted with ", ToString(rows), " rows and ",
                          ToString(cols), " columns" >>
                  ELSE << "Error: ", "Failed to insert table" >>,
      calls |-> << [call |-> InsertTable(rows, cols), ok |-> ok] >>]
     : ok \in (IF c.is_hwp_running THEN BOOLEAN ELSE {FALSE})}

\* hwp_table_tools.py 158-185: what create_table_with_data does with its data once
\* the table is inserted: the message, and the table handed to the controller's fill
\* when it gets that far. Rows that are not lists are refused, cells are str(cell).
CreateTableData(data) ==
    LET j == JsonLoads(data.str)
        table == PyList([i \in 1..Len(j.value.items) |->
                           PyList([k \in 1..Len(j.value.items[i].items) |->
                                      PyStr(Str(j.value.items[i].items[k]))])])
    IN IF data.type # "str"
       THEN [message |-> << "<table created but error while entering the data>" >>,
             fill |-> FALSE]
       ELSE IF ~j.ok
       THEN [message |-> << "<table created but JSON parse error>" >>, fill |-> FALSE]
       ELSE IF j.value.type # "list"
       THEN [message |-> << "<table created but the data is not a list: >",
                            TypeName(j.value) >>,
             fill |-> FALSE]
       ELSE IF j.value.items = <<>>
       THEN [message |-> << "<table created but the data list is empty>" >>,
             fill |-> FALSE]
       ELSE IF \E i \in 1..Len(j.value.items) : j.value.items[i].type # "list"
       THEN [message |-> << "<table created but the data is not a 2-dimensional array>" >>,
             fill |-> FALSE]
       ELSE [message |-> <<>>, fill |-> TRUE, table |-> table]

\* hwp_table_tools.py 136-197: the message returned and the calls made on the
\* controller the table tools hold.
TableToolsCreateTableWithData(c, rows, cols, data) ==
    LET d == CreateTableData(data)
        inserted == [call |-> InsertTable(rows, cols), ok |-> TRUE]
    IN {[message |-> << "Error: ", "Failed to create table" >>,
         calls |-> << [call |-> InsertTable(rows, cols), ok |-> FALSE] >>]}
       \cup (IF ~c.is_hwp_running THEN {}
             ELSE IF ~PyTruthy(data)
             THEN {[message |-> << "<table created>" >>, calls |-> << inserted >>]}
             ELSE IF ~d.fill
             THEN {[message |-> d.message, calls |-> << inserted >>]}
             ELSE {[message |-> IF filled THEN << "<table created and data entered>" >>
                                ELSE << "<table created but entering the data failed>" >>,
                    calls |-> << inserted,
                                 [call |-> FillTableWithData(d.table), ok |-> filled] >>]
                   : filled \in BOOLEAN})

\* ================================================================ the session
\* The server's globals as one value.
Session ==
    [ctrls |-> ctrls, hwp_controller |-> hwp_controller,
     hwp_table_tools |-> hwp_table_tools]

SetSession(s) ==
    /\ ctrls' = s.ctrls
    /\ hwp_controller' = s.hwp_controller
    /\ hwp_table_tools' = s.hwp_table_tools

\* hwp_controller.py 17-22: a controller as __init__ leaves it.
NewController == [is_hwp_running |-> FALSE, hwp |-> "None"]

\* Mutant of Connect: is_hwp_running is set before the backend object is dispatched.
ConnectRunningFirst(c) ==
    {[ok |-> TRUE, c |-> [is_hwp_running |-> TRUE, hwp |-> "com"]],
     [ok |-> FALSE, c |-> [c EXCEPT !.is_hwp_running = TRUE]],
     [ok |-> FALSE, c |-> [is_hwp_running |-> TRUE, hwp |-> "com"]]}

\* hwp_controller.py 41-54: connect() succeeds, or Dispatch raises (self.hwp keeps its
\* value), or a later statement raises (self.hwp is set, is_hwp_running is not).
Connect(c) ==
    {[ok |-> TRUE, c |-> [is_hwp_running |-> TRUE, hwp |-> "com"]],
     [ok |-> FALSE, c |-> c],
     [ok |-> FALSE, c |-> [c EXCEPT !.hwp = "com"]]}

\* hwp_mcp_stdio_server.py 89-107: the session after the call and the value returned.
GetHwpController(s) ==
    IF s.hwp_controller # 0
    THEN {[s |-> s, hwp |-> s.hwp_controller]}
    ELSE LET n == Len(s.ctrls) + 1
         IN {[s |-> [ctrls |-> Append(s.ctrls, o.c),
                     hwp_controller |-> n,
                     hwp_table_tools |-> IF o.ok THEN n ELSE s.hwp_table_tools],
              hwp |-> IF o.ok THEN n ELSE 0] : o \in Connect(NewController)}

\* hwp_controller.py 81-90 and 105-112: connect when not running, whatever connect
\* returns issue the backend call, which raises when self.hwp is None and may raise
\* otherwise.
Reconnecting(c) ==
    LET cs == IF c.is_hwp_running THEN {c} ELSE {o.c : o \in Connect(c)}
    IN UNION {IF d.hwp = "None"
              THEN {[ok |-> FALSE, c |-> d]}
              ELSE {[ok |-> b, c |-> d] : b \in BOOLEAN} : d \in cs}

\* hwp_controller.py 124-144: save_document returns False when not running or when the
\* backend raises.
Saving(c) == IF c.is_hwp_running THEN BOOLEAN ELSE {FALSE}

\* Controllers that nothing refers to once a tool call has returned are gone.
Rank(i, live) == Cardinality({j \in live : j <= i})

Collect(s) ==
    LET live == {s.hwp_controller, s.hwp_table_tools} \ {0}
    IN [ctrls |-> [k \in 1..Cardinality(live) |->
                      s.ctrls[CHOOSE i \in live : Rank(i, live) = k]],
        hwp_controller |-> IF s.hwp_controller = 0 THEN 0
                           ELSE Rank(s.hwp_controller, live),
        hwp_table_tools |-> IF s.hwp_table_tools = 0 THEN 0
                            ELSE Rank(s.hwp_table_tools, live)]

\* ============================================================ document builders
\* dict.get and the empty dict
EmptyDict == [k \in {} |-> 0]
Get(d, k, default) == IF k \in DOMAIN d THEN d[k] ELSE default

HasNewline(text) == \E k \in 1..Len(text) : text[k] = NL

\* hwp_controller.py 146-175, 217-247, 324-358, 495-510: what a rendering primitive
\* can return on a running controller. insert_text of a text with line breaks returns
\* True whatever its inner calls returned (158-165).
CanReturnFalse(call) == ~(call.op = "insert_text" /\ HasNewline(call.text))

\* The sets of at most n members of S.
RECURSIVE SubsetsUpTo(_, _)
SubsetsUpTo(S, n) ==
    IF n = 0 THEN {{}}
    ELSE LET smaller == SubsetsUpTo(S, n - 1)
         IN smaller \cup {F \cup {k} : F \in smaller, k \in S}

\* The calls of plan that return False: every one when the controller is not running,
\* else those whose backend call raises.
Failing(c, plan) ==
    IF c.is_hwp_running
    THEN SubsetsUpTo({k \in 1..Len(plan) : CanReturnFalse(plan[k])}, MaxSwallowed)
    ELSE {1..Len(plan)}

Logged(plan, F) == [k \in 1..Len(plan) |-> [call |-> plan[k], ok |-> k \notin F]]

Result(status, message) == [status |-> status, message |-> message]

\* hwp_mcp_stdio_server.py 639-646, 692-699, 840-846: the result after the save step
\* of a template or of a text document.
SavedKeepingStatus(res, requested, filename, ok, failure) ==
    IF ~requested THEN res
    ELSE IF ok THEN [status |-> res.status, message |-> res.message,
                     saved_path |-> filename]
    ELSE [res EXCEPT !.message = failure]

Saved(res, requested, filename, ok, failure) ==
    IF ~requested THEN res
    ELSE IF ok THEN [status |-> res.status, message |-> res.message,
                     saved_path |-> filename]
    ELSE [res EXCEPT !.message = failure, !.status = "partial_success"]

\* hwp_mcp_stdio_server.py 583-597: the same for the elements path.
ElementsSaved(requested, filename, ok) ==
    IF requested
    THEN IF ok
         THEN [status |-> "success",
               message |-> << "Document created and saved successfully" >>,
               saved_path |-> filename]
         ELSE Result("partial_success", << "Document created but failed to save" >>)
    ELSE Result("success", << "Document created successfully" >>)

\* Render plan on controller h of session s, then save when requested: every way the
\* calls can return, with the result finish[ok of the save].
Render(s, log, h, plan, requested, filename, finish) ==
    UNION {IF requested
           THEN {[s |-> s, result |-> finish[ok],
                  calls |-> log \o Logged(plan, F)
                            \o << [call |-> SaveDocument(filename), ok |-> ok] >>]
                 : ok \in Saving(s.ctrls[h])}
           ELSE {[s |-> s, result |-> finish[TRUE], calls |-> log \o Logged(plan, F)]}
          : F \in Failing(s.ctrls[h], plan)}

Failed(s, log, message) ==
    {[s |-> s, result |-> Result("error", message), calls |-> log]}

\* hwp_mcp_stdio_server.py 506-512, 723-729: get the controller and a new document.
\* Each outcome is the session, the calls made, the controller and, when the builder
\* returns here, its error message.
NewDocument(s0) ==
    UNION {IF g.hwp = 0
           THEN {[s |-> g.s, log |-> <<>>, hwp |-> 0,
                  error |-> << "Failed to connect to HWP program" >>]}
           ELSE {[s |-> [g.s EXCEPT !.ctrls[g.hwp] = n.c],
                  log |-> << [call |-> CreateNewDocument, ok |-> n.ok] >>,
                  hwp |-> g.hwp,
                  error |-> IF n.ok THEN <<>> ELSE << "Failed to create new document" >>]
                 : n \in Reconnecting(g.s.ctrls[g.hwp])}
          : g \in GetHwpController(s0)}

\* ---- hwp_create_document_from_text
\* hwp_mcp_stdio_server.py 732-848, a being the arguments of the call.
FromTextBody(s, log, h, a) ==
    IF a.content = <<>>
    THEN Failed(s, log, << "Document content is required" >>)
    ELSE Render(s, log, h,
                FromTextPlan(a.content, a.title, a.format_content,
                             a.preserve_linebreaks),
                Truthy(a.save_filename), a.save_filename.text,
                [ok \in BOOLEAN |->
                    Saved(Result("success",
                                 << "Document created from text successfully" >>),
                          Truthy(a.save_filename), a.save_filename.text, ok,
                          << "Document created but failed to save" >>)])

CreateDocumentFromText(s0, a) ==
    UNION {IF d.error # <<>> THEN Failed(d.s, d.log, d.error)
           ELSE FromTextBody(d.s, d.log, d.hwp, a)
          : d \in NewDocument(s0)}

FromTextArgs(content, title, format_content, save_filename, preserve_linebreaks) ==
    [content |-> content, title |-> title, format_content |-> format_content,
     save_filename |-> save_filename, preserve_linebreaks |-> preserve_linebreaks]

\* ---- hwp_create_complete_document
\* hwp_mcp_stdio_server.py 541-577: the calls for one element.
ElementPlan(element) ==
    LET element_type == Get(element, "type", "")
        content == Get(element, "content", <<>>)
        properties == Get(element, "properties", EmptyDict)
    IN CASE element_type = "heading" ->
              << SetFont(Get(properties, "font_size", 16),
                         Get(properties, "bold", TRUE), FALSE),
                 InsertText(content), InsertParagraph >>
         [] element_type = "text" ->
              << SetFont(Get(properties, "font_size", 10),
                         Get(properties, "bold", FALSE),
                         Get(properties, "italic", FALSE)),
                 InsertText(content) >>
         [] element_type = "paragraph" -> << InsertParagraph >>
         [] element_type = "table" ->
              IF Get(properties, "rows", 0) > 0 /\ Get(properties, "cols", 0) > 0
              THEN << InsertTable(Get(properties, "rows", 0),
                                  Get(properties, "cols", 0)) >>
              ELSE <<>>
         [] OTHER -> <<>>

\* Mutant of ElementsPlan: the elements are rendered last to first.
ElementsPlanReversed(elements) ==
    Flatten([k \in 1..Len(elements) |-> ElementPlan(elements[Len(elements) + 1 - k])])

\* hwp_mcp_stdio_server.py 540-577: the loop over the elements.
ElementsPlan(elements) == Flatten([k \in 1..Len(elements) |-> ElementPlan(elements[k])])

\* time.strftime(...) and the Korean default texts, each as one piece of text.
Today == << "<today>" >>
Spaces40 == << "<40 spaces>" >>
DefaultSections ==
    << [title |-> << "<section title>" >>, content |-> << "<section content>" >>] >>

\* hwp_mcp_stdio_server.py 625-636: one section of a report.
SectionPlan(section) ==
    << SetFont(16, TRUE, FALSE), InsertText(Get(section, "title", <<>>)),
       InsertParagraph,
       SetFont(12, FALSE, FALSE), InsertText(Get(section, "content", <<>>)),
       InsertParagraph, InsertParagraph >>

\* hwp_mcp_stdio_server.py 606-636
ReportPlan(params) ==
    LET title == Get(params, "title", << "<report title>" >>)
        author == Get(params, "author", << "<author>" >>)
        date == Get(params, "date", Today)
        sections == Get(params, "sections", DefaultSections)
    IN << SetFont(22, TRUE, FALSE), InsertText(title), InsertParagraph, InsertParagraph,
          SetFont(14, FALSE, FALSE), InsertText(<< "author: " >> \o author),
          InsertParagraph, InsertText(<< "date: " >> \o date), InsertParagraph,
          InsertParagraph >>
       \o Flatten([k \in 1..Len(sections) |-> SectionPlan(sections[k])])

\* hwp_mcp_stdio_server.py 657-689
LetterPlan(params) ==
    LET title == Get(params, "title", << "<no title>" >>)
        recipient == Get(params, "recipient", << "<recipient>" >>)
        content == Get(params, "content", << "<enter the content>" >>)
        sender == Get(params, "sender", << "<sender>" >>)
        date == Get(params, "date", Today)
    IN << SetFont(16, TRUE, FALSE), InsertText(title), InsertParagraph, InsertParagraph,
          SetFont(12, FALSE, FALSE), InsertText(<< "recipient: " >> \o recipient),
          InsertParagraph, InsertParagraph,
          SetFont(12, FALSE, FALSE), InsertText(content), InsertParagraph,
          InsertParagraph,
          SetFont(12, FALSE, FALSE), InsertText(Spaces40 \o date), InsertParagraph,
          SetFont(12, TRUE, FALSE), InsertText(Spaces40 \o sender) >>

\* hwp_mcp_stdio_server.py 584, 641, 694: the file name a document is saved under.
DefaultFilename(kind) ==
    CASE kind = "report" -> << "report.hwp" >>
      [] kind = "letter" -> << "letter.hwp" >>
      [] OTHER -> << "generated_document.hwp" >>

\* hwp_mcp_stdio_server.py 603-652, 654-705: _create_report and _create_letter.
Template(s, log, h, kind, plan, document_spec, created, failure) ==
    Render(s, log, h, plan, Get(document_spec, "save", FALSE),
           Get(document_spec, "filename", DefaultFilename(kind)),
           [ok \in BOOLEAN |->
               Saved(Result("success", created), Get(document_spec, "save", FALSE),
                     Get(document_spec, "filename", DefaultFilename(kind)),
                     ok, failure)])

\* Mutant of CompleteDocumentBody: a spec with elements is rendered from its elements
\* whether or not it names a special type.
CompleteDocumentBodyElementsFirst(s, log, h, document_spec) ==
    IF DOMAIN document_spec = {}
    THEN Failed(s, log, << "Document specification is required" >>)
    ELSE IF "special_type" \in DOMAIN document_spec
            /\ "elements" \notin DOMAIN document_spec
    THEN LET special_type == document_spec["special_type"]
             special_type_name == Get(special_type, "type", "")
             special_params == Get(special_type, "params", EmptyDict)
         IN IF special_type_name = "report"
            THEN Template(s, log, h, "report", ReportPlan(special_params),
                          document_spec, << "Report created successfully" >>,
                          << "Report created but failed to save" >>)
            ELSE IF special_type_name = "letter"
            THEN Template(s, log, h, "letter", LetterPlan(special_params),
                          document_spec, << "Letter created successfully" >>,
                          << "Letter created but failed to save" >>)
            ELSE Failed(s, log, << "Unknown special document type: ",
                                   special_type_name >>)
    ELSE IF "elements" \in DOMAIN document_spec
    THEN Render(s, log, h, ElementsPlan(Get(document_spec, "elements", <<>>)),
                Get(document_spec, "save", FALSE),
                Get(document_spec, "filename", DefaultFilename("elements")),
                [ok \in BOOLEAN |->
                    ElementsSaved(Get(document_spec, "save", FALSE),
                                  Get(document_spec, "filename",
                                      DefaultFilename("elements")), ok)])
    ELSE Failed(s, log, << "Document must contain 'elements' or 'special_type'" >>)

\* hwp_mcp_stdio_server.py 515-597
CompleteDocumentBody(s, log, h, document_spec) ==
    IF DOMAIN document_spec = {}
    THEN Failed(s, log, << "Document specification is required" >>)
    ELSE IF "special_type" \in DOMAIN document_spec
    THEN LET special_type == document_spec["special_type"]
             special_type_name == Get(special_type, "type", "")
             special_params == Get(special_type, "params", EmptyDict)
         IN IF special_type_name = "report"
            THEN Template(s, log, h, "report", ReportPlan(special_params),
                          document_spec, << "Report created successfully" >>,
                          << "Report created but failed to save" >>)
            ELSE IF special_type_name = "letter"
            THEN Template(s, log, h, "letter", LetterPlan(special_params),
                          document_spec, << "Letter created successfully" >>,
                          << "Letter created but failed to save" >>)
            ELSE Failed(s, log, << "Unknown special document type: ",
                                   special_type_name >>)
    ELSE IF "elements" \in DOMAIN document_spec
    THEN Render(s, log, h, ElementsPlan(Get(document_spec, "elements", <<>>)),
                Get(document_spec, "save", FALSE),
                Get(document_spec, "filename", DefaultFilename("elements")),
                [ok \in BOOLEAN |->
                    ElementsSaved(Get(document_spec, "save", FALSE),
                                  Get(document_spec, "filename",
                                      DefaultFilename("elements")), ok)])
    ELSE Failed(s, log, << "Document must contain 'elements' or 'special_type'" >>)

CreateCompleteDocument(s0, document_spec) ==
    UNION {IF d.error # <<>> THEN Failed(d.s, d.log, d.error)
           ELSE CompleteDocumentBody(d.s, d.log, d.hwp, document_spec)
          : d \in NewDocument(s0)}

\* ---- the requests served
Elements ==
    {[type |-> "heading", content |-> << "h" >>],
     [type |-> "text", content |-> << "x" >>,
      properties |-> [font_size |-> 12, bold |-> TRUE]],
     [type |-> "paragraph"],
     [type |-> "table", properties |-> [rows |-> 1, cols |-> 2]],
     [type |-> "table", properties |-> [rows |-> 0, cols |-> 2]],
     [type |-> "table",
      properties |-> [rows |-> 1, cols |-> 2,
                      data |-> PyList(<< PyList(<< PyStr(<< "a" >>),
                                                   PyStr(<< "b" >>) >>) >>)]],
     [type |-> "image"]}

ElementLists == UNION {[1..n -> Elements] : n \in 0..MaxElements}

SaveOptions ==
    {EmptyDict, [save |-> TRUE], [save |-> TRUE, filename |-> << "f.hwp" >>],
     [save |-> FALSE, filename |-> << "f.hwp" >>]}

SpecialTypes ==
    {EmptyDict, [type |-> "memo"], [type |-> "report"], [type |-> "letter"],
     [type |-> "report",
      params |-> [title |-> << "t" >>,
                  sections |-> << [title |-> << "s" >>, content |-> << "c" >>] >>]],
     [type |-> "report", params |-> [sections |-> <<>>]],
     [type |-> "letter", params |-> [title |-> << "t" >>, content |-> << "c" >>]]}

DocumentSpecs ==
    SaveOptions
    \cup {[elements |-> e] @@ o : e \in ElementLists, o \in SaveOptions}
    \cup {[special_type |-> t] @@ o : t \in SpecialTypes, o \in SaveOptions}
    \cup {[special_type |-> [type |-> "report"], elements |-> << [type |-> "paragraph"] >>]}

Contents ==
    {<<>>, << "a" >>, << "a", NL, "b" >>, << "a", NL, NL, "b", NL, "c" >>,
     << "#", "h", NL, "a", NL, NL, "-", "b" >>}

NoFilename == NoTitle
Filenames == {NoFilename, TitleOf(<<>>), TitleOf(<< "f.hwp" >>)}

\* ---- the tool calls
\* The state in which the server starts: no controller yet (84-87).
InitServer ==
    /\ ctrls = <<>>
    /\ hwp_controller = 0
    /\ hwp_table_tools = 0
    /\ hwp = 0
    /\ pc = "idle"
    /\ req = NoReq
    /\ result = NoResult
    /\ NoFill
    /\ NoTable

Serve(o) ==
    /\ SetSession(o.s)
    /\ result' = o.result
    /\ calls' = o.calls
    /\ pc' = "done"
    /\ UNCHANGED <<hwp, prog, raised, swallowed, backend>>

hwp_create_complete_document ==
    /\ pc = "idle"
    /\ \E document_spec \in DocumentSpecs :
          /\ req' = [tool |-> "hwp_create_complete_document",
                     document_spec |-> document_spec]
          /\ \E o \in CreateCompleteDocument(Session, document_spec) : Serve(o)

hwp_create_document_from_text ==
    /\ pc = "idle"
    /\ \E content \in Contents, title \in Titles, format_content \in BOOLEAN,
          save_filename \in Filenames, preserve_linebreaks \in BOOLEAN :
          LET a == FromTextArgs(content, title, format_content, save_filename,
                                preserve_linebreaks)
          IN /\ req' = [tool |-> "hwp_create_document_from_text"] @@ a
             /\ \E o \in CreateDocumentFromText(Session, a) : Serve(o)

\* The tool call has returned; the server waits for the next one.
Return ==
    /\ pc = "done"
    /\ pc' = "idle"
    /\ req' = NoReq
    /\ result' = NoResult
    /\ calls' = <<>>
    /\ hwp' = 0
    /\ SetSession(Collect(Session))
    /\ UNCHANGED <<prog, raised, swallowed, backend>>

NextDoc == hwp_create_complete_document \/ hwp_create_document_from_text \/ Return

SpecDoc == InitServer /\ [][NextDoc]_vars

\* ---- claims about the document builders
Built ==
    /\ pc = "done"
    /\ req.tool \in {"hwp_create_complete_document", "hwp_create_document_from_text"}

Mutations == {"create_new_document", "insert_table", "insert_text"}
Rendering == {"set_font", "insert_text", "insert_paragraph", "insert_table"}

InvalidInputMessages ==
    {<< "Document specification is required" >>,
     << "Document must contain 'elements' or 'special_type'" >>,
     << "Unknown special document type: ", "" >>,
     << "Unknown special document type: ", "memo" >>,
     << "Document content is required" >>}

\* C6: when a document builder returns an error for invalid input (empty spec, neither
\* elements nor special_type, unknown special type, empty content), no call that
\* changes the document (new document, table, text) succeeded during that tool call.
C6_InvalidInputLeavesBackendUntouched ==
    (Built /\ result.status = "error" /\ result.message \in InvalidInputMessages)
        => \A k \in 1..Len(calls) : ~(calls[k].ok /\ calls[k].call.op \in Mutations)

\* C7: when a rendering call (set font, insert text, paragraph break, create table)
\* returned False during a document builder, the status returned is not 'success'.
C7_RenderingFailureIsSurfaced ==
    (Built /\ \E k \in 1..Len(calls) : ~calls[k].ok /\ calls[k].call.op \in Rendering)
        => result.status # "success"

\* The request is valid, the controller was obtained and the new document created, so
\* the builder rendered.
ValidRequest ==
    IF req.tool = "hwp_create_document_from_text"
    THEN req.content # <<>>
    ELSE /\ DOMAIN req.document_spec # {}
         /\ IF "special_type" \in DOMAIN req.document_spec
            THEN Get(req.document_spec["special_type"], "type", "") \in {"report", "letter"}
            ELSE "elements" \in DOMAIN req.document_spec

RenderingCompleted ==
    /\ Built
    /\ ValidRequest
    /\ calls # <<>>
    /\ calls[1].call.op = "create_new_document"
    /\ calls[1].ok

SaveRequested ==
    IF req.tool = "hwp_create_document_from_text"
    THEN req.save_filename.given /\ req.save_filename.text # <<>>
    ELSE Get(req.document_spec, "save", FALSE)

RequestedFilename ==
    IF req.tool = "hwp_create_document_from_text"
    THEN req.save_filename.text
    ELSE IF "filename" \in DOMAIN req.document_spec THEN req.document_spec["filename"]
    ELSE IF "special_type" \in DOMAIN req.document_spec
    THEN << req.document_spec["special_type"]["type"] \o ".hwp" >>
    ELSE << "generated_document.hwp" >>

SaveCalls == {k \in 1..Len(calls) : calls[k].call.op = "save_document"}

\* C8: once rendering completed, a requested save is one save_document call with the
\* requested (or default) file name, the last call made; the result is 'success' with
\* that name as saved_path when it succeeds and 'partial_success' without saved_path
\* when it fails; without a requested save the status is 'success' and no save call
\* is made.
C8_SaveOutcomeDecidesStatus ==
    RenderingCompleted =>
        IF SaveRequested
        THEN /\ SaveCalls = {Len(calls)}
             /\ calls[Len(calls)].call.text = RequestedFilename
             /\ IF calls[Len(calls)].ok
                THEN /\ result.status = "success"
                     /\ "saved_path" \in DOMAIN result
                     /\ result.saved_path = RequestedFilename
                ELSE /\ result.status = "partial_success"
                     /\ "saved_path" \notin DOMAIN result
        ELSE /\ SaveCalls = {}
             /\ result.status = "success"
             /\ "saved_path" \notin DOMAIN result

\* A template document saved under its default name.
C8_Witness ==
    /\ RenderingCompleted
    /\ SaveRequested
    /\ req.tool = "hwp_create_complete_document"
    /\ "filename" \notin DOMAIN req.document_spec
    /\ "special_type" \in DOMAIN req.document_spec
    /\ result.status = "success"
    /\ result.saved_path = << "report.hwp" >>

\* ========================================================= hwp_batch_operations
\* params given as null: every params.get(...) raises AttributeError.
None == [None |-> TRUE]
IsNone(x) == DOMAIN x = {"None"}

Entry(operation, status, message) ==
    [operation |-> operation, status |-> status, message |-> message]

\* What one operation of a batch does: the session after it, its entry in the results
\* and the controller calls it made.
Done(s, entry, log) == [s |-> s, entry |-> entry, calls |-> log]

OpenDocument(path) == PCall("open_document", 0, FALSE, FALSE, path, 0, 0)
SetFontStyle(size, b, it) == PCall("set_font_style", size, b, it, <<>>, 0, 0)
GetText == PCall("get_text", 0, FALSE, FALSE, <<>>, 0, 0)
Disconnect == PCall("disconnect", 0, FALSE, FALSE, <<>>, 0, 0)

\* hwp_mcp_stdio_server.py 109-116
GetHwpTableTools(s) ==
    IF s.hwp_table_tools # 0
    THEN {[s |-> s, table_tools |-> s.hwp_table_tools]}
    ELSE {[s |-> [g.s EXCEPT !.hwp_controller = g.hwp,
                             !.hwp_table_tools = IF g.hwp # 0 THEN g.hwp ELSE @],
           table_tools |-> g.hwp] : g \in GetHwpController(s)}

\* text.replace('\\n', '\n')
RECURSIVE Unescape(_)
Unescape(text) ==
    IF Len(text) < 2 THEN text
    ELSE IF text[1] = "\\" /\ text[2] = "n" THEN << NL >> \o Unescape(Tail(Tail(text)))
    ELSE << text[1] >> \o Unescape(Tail(text))

HasEscapedNewline(text) == Unescape(text) # text

\* A loop that issues plan and breaks at the first call of `stoppers` that returns
\* False: the calls made.
UntilFalse(plan, F, stoppers) ==
    LET stops == {k \in F : plan[k].op \in stoppers}
        last == IF stops = {} THEN Len(plan)
                ELSE CHOOSE k \in stops : \A j \in stops : k <= j
    IN SubSeq(Logged(plan, F), 1, last)

AllTrue(log, stoppers) == \A k \in 1..Len(log) : log[k].call.op \in stoppers => log[k].ok

\* Mutant of LinesWithBreaks: a paragraph break follows the last line too.
LinesWithTrailingBreak(lines) ==
    Flatten([k \in 1..Len(lines) |-> << InsertText(lines[k]), InsertParagraph >>])

\* hwp_mcp_stdio_server.py 929-938: insert_text per line, a paragraph break between.
LinesWithBreaks(lines) ==
    Flatten([k \in 1..Len(lines) |->
               << InsertText(lines[k]) >>
               \o (IF k < Len(lines) THEN << InsertParagraph >> ELSE <<>>)])

\* hwp_mcp_stdio_server.py 883-888
OpCreate(s, h, name) ==
    {Done([s EXCEPT !.ctrls[h] = n.c],
          IF n.ok THEN Entry(name, "success", << "New document created successfully" >>)
          ELSE Entry(name, "error", << "Failed to create new document" >>),
          << [call |-> CreateNewDocument, ok |-> n.ok] >>)
     : n \in Reconnecting(s.ctrls[h])}

\* hwp_mcp_stdio_server.py 890-899
OpOpen(s, h, name, params) ==
    LET path == Get(params, "path", <<>>)
    IN IF path = <<>>
       THEN {Done(s, Entry(name, "error", << "File path is required" >>), <<>>)}
       ELSE {Done([s EXCEPT !.ctrls[h] = n.c],
                  IF n.ok THEN Entry(name, "success", << "Document opened: " >> \o path)
                  ELSE Entry(name, "error", << "Failed to open document" >>),
                  << [call |-> OpenDocument(path), ok |-> n.ok] >>)
             : n \in Reconnecting(s.ctrls[h])}

\* os.path.join(os.getcwd(), "temp_document.hwp")
TempPath == << "<cwd>/temp_document.hwp" >>

\* hwp_mcp_stdio_server.py 901-915
OpSave(s, h, name, params) ==
    LET path == Get(params, "path", <<>>)
    IN IF path # <<>>
       THEN {Done(s,
                  IF ok THEN Entry(name, "success", << "Document saved to: " >> \o path)
                  ELSE Entry(name, "error", << "Failed to save document" >>),
                  << [call |-> SaveDocument(path), ok |-> ok] >>)
             : ok \in Saving(s.ctrls[h])}
       ELSE {Done(s,
                  IF ok
                  THEN [operation |-> name, status |-> "success",
                        message |-> << "Document saved to: " >> \o TempPath,
                        path |-> TempPath]
                  ELSE Entry(name, "error", << "Failed to save document" >>),
                  << [call |-> SaveDocument(TempPath), ok |-> ok] >>)
             : ok \in Saving(s.ctrls[h])}

\* hwp_mcp_stdio_server.py 917-949
OpInsertText(s, h, name, params) ==
    LET text == Get(params, "text", <<>>)
        preserve_linebreaks == Get(params, "preserve_linebreaks", TRUE)
    IN IF text = <<>>
       THEN {Done(s, Entry(name, "error", << "Text is required" >>), <<>>)}
       ELSE IF preserve_linebreaks /\ (HasNewline(text) \/ HasEscapedNewline(text))
       THEN LET plan == LinesWithBreaks(SplitLines(Unescape(text)))
            IN {LET log == UntilFalse(plan, F, {"insert_text"})
                IN Done(s,
                        IF AllTrue(log, {"insert_text"})
                        THEN Entry(name, "success",
                                   << "Text with line breaks inserted successfully" >>)
                        ELSE Entry(name, "error",
                                   << "Failed to insert text with line breaks" >>),
                        log)
                : F \in Failing(s.ctrls[h], plan)}
       ELSE {LET log == Logged(<< InsertText(text) >>, F)
             IN Done(s,
                     IF log[1].ok THEN Entry(name, "success", << "Text inserted successfully" >>)
                     ELSE Entry(name, "error", << "Failed to insert text" >>),
                     log)
             : F \in Failing(s.ctrls[h], << InsertText(text) >>)}

\* hwp_mcp_stdio_server.py 951-963
OpSetFont(s, h, name, params) ==
    LET plan == << SetFontStyle(Get(params, "size", 0), Get(params, "bold", FALSE),
                                Get(params, "italic", FALSE)) >>
    IN {LET log == Logged(plan, F)
        IN Done(s,
                IF log[1].ok THEN Entry(name, "success", << "Font set successfully" >>)
                ELSE Entry(name, "error", << "Failed to set font" >>),
                log)
        : F \in Failing(s.ctrls[h], plan)}

\* hwp_mcp_stdio_server.py 965-977
OpInsertParagraph(s, h, name, params) ==
    LET count == Get(params, "count", 1)
        plan == [k \in 1..count |-> InsertParagraph]
    IN {LET log == UntilFalse(plan, F, {"insert_paragraph"})
        IN Done(s,
                IF AllTrue(log, {"insert_paragraph"})
                THEN Entry(name, "success",
                           << ToString(count), " paragraph(s) inserted successfully" >>)
                ELSE Entry(name, "error", << "Failed to insert paragraph" >>),
                log)
        : F \in Failing(s.ctrls[h], plan)}

\* str.startswith("Error")
StartsWithError(message) == message # <<>> /\ message[1] = "Error: "

\* Mutant of OpInsertTable: the size of the table is not validated.
OpInsertTableUnchecked(s, name, params) ==
    LET rows == Get(params, "rows", 0)
        cols == Get(params, "cols", 0)
        data == Get(params, "data", PyList(<<>>))
    IN UNION {IF t.table_tools = 0
              THEN {Done(t.s, Entry(name, "error",
                                    << "Failed to get table tools instance" >>), <<>>)}
              ELSE IF FALSE
              THEN {Done(t.s, Entry(name, "error",
                                    << "Valid rows and cols are required" >>), <<>>)}
              ELSE {Done(t.s,
                         Entry(name,
                               IF StartsWithError(r.message) THEN "error" ELSE "success",
                               r.message),
                         r.calls)
                    : r \in (IF PyTruthy(data)
                             THEN TableToolsCreateTableWithData(
                                      t.s.ctrls[t.table_tools], rows, cols,
                                      IF data.type = "list" THEN PyStr(JsonDumps(data))
                                      ELSE data)
                             ELSE TableToolsInsertTable(
                                      t.s.ctrls[t.table_tools], rows, cols))}
             : t \in GetHwpTableTools(s)}

\* hwp_mcp_stdio_server.py 979-1003
OpInsertTable(s, name, params) ==
    LET rows == Get(params, "rows", 0)
        cols == Get(params, "cols", 0)
        data == Get(params, "data", PyList(<<>>))
    IN UNION {IF t.table_tools = 0
              THEN {Done(t.s, Entry(name, "error",
                                    << "Failed to get table tools instance" >>), <<>>)}
              ELSE IF rows <= 0 \/ cols <= 0
              THEN {Done(t.s, Entry(name, "error",
                                    << "Valid rows and cols are required" >>), <<>>)}
              ELSE {Done(t.s,
                         Entry(name,
                               IF StartsWithError(r.message) THEN "error" ELSE "success",
                               r.message),
                         r.calls)
                    : r \in (IF PyTruthy(data)
                             THEN TableToolsCreateTableWithData(
                                      t.s.ctrls[t.table_tools], rows, cols,
                                      IF data.type = "list" THEN PyStr(JsonDumps(data))
                                      ELSE data)
                             ELSE TableToolsInsertTable(
                                      t.s.ctrls[t.table_tools], rows, cols))}
             : t \in GetHwpTableTools(s)}

\* hwp_table_tools.py 72-84: HwpController has no method fill_table_cell, the
\* AttributeError is caught and returned as a message.
TableToolsSetCellText ==
    << "Error: ", "'HwpController' object has no attribute 'fill_table_cell'" >>

\* hwp_table_tools.py 99-111: the same for merge_table_cells.
TableToolsMergeCells ==
    << "Error: ", "'HwpController' object has no attribute 'merge_table_cells'" >>

\* hwp_mcp_stdio_server.py 1005-1021
OpSetTableCellText(s, name, params) ==
    LET row == Get(params, "row", 0)
        col == Get(params, "col", 0)
    IN {IF t.table_tools = 0
        THEN Done(t.s, Entry(name, "error",
                             << "Failed to get table tools instance" >>), <<>>)
        ELSE IF row <= 0 \/ col <= 0
        THEN Done(t.s, Entry(name, "error", << "Valid row and col are required" >>), <<>>)
        ELSE Done(t.s,
                  Entry(name,
                        IF StartsWithError(TableToolsSetCellText) THEN "error"
                        ELSE "success",
                        TableToolsSetCellText),
                  <<>>)
        : t \in GetHwpTableTools(s)}

\* hwp_mcp_stdio_server.py 1023-1040
OpMergeTableCells(s, name, params) ==
    {IF t.table_tools = 0
     THEN Done(t.s, Entry(name, "error",
                          << "Failed to get table tools instance" >>), <<>>)
     ELSE IF \E k \in {"start_row", "start_col", "end_row", "end_col"} :
                Get(params, k, 0) <= 0
     THEN Done(t.s, Entry(name, "error",
                          << "Valid cell coordinates are required" >>), <<>>)
     ELSE Done(t.s,
               Entry(name,
                     IF StartsWithError(TableToolsMergeCells) THEN "error" ELSE "success",
                     TableToolsMergeCells),
               <<>>)
     : t \in GetHwpTableTools(s)}

\* hwp_mcp_stdio_server.py 1042-1049 and hwp_controller.py 457-464: get_text returns a
\* string, the empty one when it fails.
OpGetText(s, h, name) ==
    {Done(s,
          [operation |-> name, status |-> "success",
           message |-> << "Text retrieved successfully" >>,
           text |-> IF ok THEN << "<document text>" >> ELSE <<>>],
          << [call |-> GetText, ok |-> ok] >>)
     : ok \in (IF s.ctrls[h].is_hwp_running THEN BOOLEAN ELSE {FALSE})}

\* hwp_mcp_stdio_server.py 1051-1060 and hwp_controller.py 63-69
OpClose(s, h, name) ==
    {Done([s EXCEPT !.ctrls[h] = IF @.is_hwp_running THEN NewController ELSE @,
                    !.hwp_controller = 0],
          Entry(name, "success", << "Document closed successfully" >>),
          << [call |-> Disconnect, ok |-> TRUE] >>)}

\* hwp_mcp_stdio_server.py 1063-1086
OpCreateDocumentFromText(s, name, params) ==
    LET content == Get(params, "content", <<>>)
    IN IF content = <<>>
       THEN {Done(s, Entry(name, "error", << "Document content is required" >>), <<>>)}
       ELSE {Done(o.s,
                  IF "saved_path" \in DOMAIN o.result
                  THEN [operation |-> name, status |-> o.result.status,
                        message |-> o.result.message,
                        saved_path |-> o.result.saved_path]
                  ELSE Entry(name, o.result.status, o.result.message),
                  o.calls)
             : o \in CreateDocumentFromText(
                         s, FromTextArgs(content, Get(params, "title", NoTitle),
                                         Get(params, "format_content", TRUE),
                                         Get(params, "save_filename", NoFilename),
                                         Get(params, "preserve_linebreaks", TRUE)))}

UsesParams ==
    {"open", "save", "insert_text", "set_font", "insert_paragraph", "insert_table",
     "set_table_cell_text", "merge_table_cells", "close", "create_document_from_text"}

\* hwp_mcp_stdio_server.py 877-1094: one operation of the batch, with `hwp` = h.
Operate(s, h, op) ==
    LET operation == Get(op, "operation", "")
        params == Get(op, "params", EmptyDict)
    IN IF operation \in UsesParams /\ IsNone(params)
       THEN {Done(s, Entry(operation, "error",
                           << "Error in operation '", operation,
                              "': 'NoneType' object has no attribute 'get'" >>), <<>>)}
       ELSE CASE operation = "create" -> OpCreate(s, h, operation)
              [] operation = "open" -> OpOpen(s, h, operation, params)
              [] operation = "save" -> OpSave(s, h, operation, params)
              [] operation = "insert_text" -> OpInsertText(s, h, operation, params)
              [] operation = "set_font" -> OpSetFont(s, h, operation, params)
              [] operation = "insert_paragraph" ->
                    OpInsertParagraph(s, h, operation, params)
              [] operation = "insert_table" -> OpInsertTable(s, operation, params)
              [] operation = "set_table_cell_text" ->
                    OpSetTableCellText(s, operation, params)
              [] operation = "merge_table_cells" ->
                    OpMergeTableCells(s, operation, params)
              [] operation = "get_text" -> OpGetText(s, h, operation)
              [] operation = "close" -> OpClose(s, h, operation)
              [] operation = "create_document_from_text" ->
                    OpCreateDocumentFromText(s, operation, params)
              [] OTHER -> {Done(s, Entry(operation, "error",
                                         << "Unknown operation: ", operation >>), <<>>)}

\* hwp_mcp_stdio_server.py 876, 1096: the loop goes on to the next operation whatever
\* the entry just appended says.
RemainingStoppingAtError(ops, entry) ==
    IF entry.status = "error" THEN <<>> ELSE Tail(ops)

Remaining(ops, entry) == Tail(ops)

\* hwp_mcp_stdio_server.py 1098
BatchResultFailingWithEntries(results) ==
    [status |-> IF \E k \in 1..Len(results) : results[k].status = "error"
                THEN "error" ELSE "success",
     results |-> results]

BatchResult(results) == [status |-> "success", results |-> results]

Operations ==
    {[operation |-> "create"],
     [operation |-> "open"],
     [operation |-> "save", params |-> [path |-> << "f.hwp" >>]],
     [operation |-> "insert_text", params |-> [text |-> << "a", NL, "b" >>]],
     [operation |-> "insert_text", params |-> None],
     [operation |-> "set_font", params |-> [size |-> 12, bold |-> TRUE]],
     [operation |-> "insert_paragraph", params |-> [count |-> 2]],
     [operation |-> "insert_table", params |-> [rows |-> 1, cols |-> 2]],
     [operation |-> "insert_table",
      params |-> [rows |-> 2, cols |-> 1,
                  data |-> PyList(<< PyList(<< PyStr(<< "a" >>) >>), PyInt(<< "1" >>) >>)]],
     [operation |-> "insert_table",
      params |-> [rows |-> 1, cols |-> 2,
                  data |-> PyList(<< PyList(<< PyNone, PyStr(<< "a" >>) >>) >>)]],
     [operation |-> "set_table_cell_text",
      params |-> [row |-> 1, col |-> 1, text |-> << "x" >>]],
     [operation |-> "insert_text", params |-> [text |-> <<>>]],
     [operation |-> "insert_table", params |-> [rows |-> 0, cols |-> 2]],
     [operation |-> "set_table_cell_text",
      params |-> [row |-> 0, col |-> 1, text |-> << "x" >>]],
     [operation |-> "merge_table_cells",
      params |-> [start_row |-> 1, start_col |-> 1, end_row |-> 1, end_col |-> 0]],
     [operation |-> "merge_table_cells",
      params |-> [start_row |-> 1, start_col |-> 1, end_row |-> 1, end_col |-> 2]],
     [operation |-> "get_text"],
     [operation |-> "close"],
     [operation |-> "create_document_from_text",
      params |-> [content |-> << "a" >>,
                  save_filename |-> [given |-> TRUE, text |-> << "f.hwp" >>]]],
     [operation |-> "frobnicate"],
     [params |-> EmptyDict]}

OperationLists == UNION {[1..n -> Operations] : n \in 0..MaxOps}

\* hwp_mcp_stdio_server.py 869-874
hwp_batch_operations ==
    /\ pc = "idle"
    /\ \E operations \in OperationLists, g \in GetHwpController(Session) :
          /\ req' = [tool |-> "hwp_batch_operations", operations |-> operations]
          /\ SetSession(g.s)
          /\ hwp' = g.hwp
          /\ IF g.hwp = 0
             THEN /\ pc' = "done"
                  /\ prog' = <<>>
                  /\ result' = Result("error", << "Failed to connect to HWP program" >>)
             ELSE /\ pc' = "batch"
                  /\ prog' = operations
                  /\ result' = [status |-> "none", results |-> <<>>]
    /\ calls' = <<>>
    /\ UNCHANGED <<raised, swallowed, backend>>

\* hwp_mcp_stdio_server.py 876-1096: one turn of the loop.
BatchOperation ==
    /\ pc = "batch"
    /\ prog # <<>>
    /\ \E o \in Operate(Session, hwp, Head(prog)) :
          /\ SetSession(o.s)
          /\ result' = [result EXCEPT !.results = Append(@, o.entry)]
          /\ calls' = calls \o [k \in 1..Len(o.calls) |->
                                  [call |-> o.calls[k].call, ok |-> o.calls[k].ok,
                                   i |-> Len(result.results) + 1]]
          /\ prog' = Remaining(prog, o.entry)
    /\ UNCHANGED <<hwp, pc, req, raised, swallowed, backend>>

\* hwp_mcp_stdio_server.py 1098
BatchReturn ==
    /\ pc = "batch"
    /\ prog = <<>>
    /\ pc' = "done"
    /\ result' = BatchResult(result.results)
    /\ UNCHANGED <<session, hwp, req, prog, calls, raised, swallowed, backend>>

NextBatch == hwp_batch_operations \/ BatchOperation \/ BatchReturn \/ Return

SpecBatch == InitServer /\ [][NextBatch]_vars

\* ---- claims about the batch
BatchDone == pc = "done" /\ req.tool = "hwp_batch_operations"

KnownOperations ==
    {"create", "open", "save", "insert_text", "set_font", "insert_paragraph",
     "insert_table", "set_table_cell_text", "merge_table_cells", "get_text", "close",
     "create_document_from_text"}

OperationName(op) == IF "operation" \in DOMAIN op THEN op["operation"] ELSE ""

\* Operations that call the controller whatever their parameters are.
AlwaysCalls == {"create", "get_text", "close"}

Occurs(seg, plan) ==
    \E p \in 0..(Len(plan) - Len(seg)) : SubSeq(plan, p + 1, p + Len(seg)) = seg

StartsWithHash(block) == Strip(block[1]) # <<>> /\ Strip(block[1])[1] = "#"

\* The number of '#' a line begins with, the line beginning with at least one.
LeadingHashes(line) ==
    CHOOSE n \in 1..Len(line) :
        /\ \A i \in 1..n : line[i] = "#"
        /\ n = Len(line) \/ line[n + 1] # "#"

\* The calls a heading block is to give: the heading without its '#', bold, at the
\* size of its level, then every other line of the block as a size-11 paragraph.
ExpectedHeading(block) ==
    LET first == Strip(block[1])
        L == LeadingHashes(first)
    IN << SetFont(IF L >= 6 THEN 11 ELSE 17 - L, TRUE, FALSE),
          InsertText(Strip(SubSeq(first, L + 1, Len(first)))), InsertParagraph >>
       \o (IF Len(block) = 1 THEN <<>>
           ELSE << SetFont(11, FALSE, FALSE) >>
                \o [i \in 1..(2 * (Len(block) - 1)) |->
                      IF i % 2 = 1 THEN InsertText(block[(i + 1) \div 2 + 1])
                      ELSE InsertParagraph])

\* C11 as stated: with format_content, a content that is one block whose first line
\* starts with '#' is rendered as the heading without the '#' followed by the other
\* lines as size-11 paragraphs, whether or not a title was given.
C11_HeadingBlockOfContentIsRendered ==
    (Segmented /\ req.format_content /\ Len(result.blocks) = 1
       /\ StartsWithHash(result.blocks[1]))
        => Occurs(ExpectedHeading(result.blocks[1]), result.plan)

\* C11: with format_content, every block left after the title was taken whose first
\* line starts with '#' is rendered as the heading (text without the '#', trimmed,
\* bold, size of its level) followed by each other line of the block, in order, as
\* its own size-11 paragraph.
C11_HeadingBlockOfBodyIsRendered ==
    (Segmented /\ req.format_content) =>
        \A k \in 1..Len(result.body) :
            StartsWithHash(result.body[k])
                => Occurs(ExpectedHeading(result.body[k]), result.plan)

\* "# a\na" under an explicit title: heading 'a' at 16 bold, then 'a' at 11.
C11_Witness ==
    /\ Segmented
    /\ req.format_content
    /\ Truthy(req.title)
    /\ req.content = << "#", " ", "a", NL, "a" >>
    /\ Occurs(<< SetFont(16, TRUE, FALSE), InsertText(<< "a" >>), InsertParagraph,
                 SetFont(11, FALSE, FALSE), InsertText(<< "a" >>), InsertParagraph >>,
              result.plan)

\* --------------------------------------------- one block as a pure function
Hashes(n) == [i \in 1..n |-> "#"]

FirstLines ==
    {Hashes(L) \o suffix : L \in 1..MaxLevel,
                           suffix \in {<<>>, << " ", "a" >>, << "a", " " >>}}
    \cup {<< "-", " ", "a" >>, << "*", "b" >>, << Bullet, " ", "c" >>,
          << " ", "-", "a", " " >>, << "-", "-", "a" >>, << "a" >>,
          << " ", "a", " " >>, << "a", "-" >>, << " ", "#", "a" >>}

OtherLines ==
    {<< "*", " ", "b" >>, << Bullet, "c" >>, << " ", "a", " " >>,
     << "-", " ", " ", "a" >>, << "#", "a" >>}

Blocks ==
    {<< first >> \o rest : first \in FirstLines,
                           rest \in UNION {[1..n -> OtherLines] : n \in 0..2}}

\* A block of the body and the preserve_linebreaks flag it is rendered under.
InitBlock ==
    /\ ctrls = <<>>
    /\ hwp_controller = 0
    /\ hwp_table_tools = 0
    /\ hwp = 0
    /\ pc = "idle"
    /\ \E block \in Blocks, preserve_linebreaks \in BOOLEAN :
          req = [tool |-> "block", block |-> block,
                 preserve_linebreaks |-> preserve_linebreaks]
    /\ result = NoResult
    /\ NoFill
    /\ NoTable

\* hwp_mcp_stdio_server.py 774-829: the calls made for the block.
RenderBlock ==
    /\ pc = "idle"
    /\ req.tool = "block"
    /\ pc' = "done"
    /\ result' = [tool |-> "block", status |-> "none", message |-> "",
                  plan |-> BlockPlan(req.block, req.preserve_linebreaks)]
    /\ UNCHANGED <<session, hwp, req, prog, calls, raised, swallowed, backend>>

NextBlock == RenderBlock

SpecBlock == InitBlock /\ [][NextBlock]_vars

BlockRendered == pc = "done" /\ req.tool = "block"

\* C12: a heading line with L >= 1 leading '#' is a heading of level L, whatever L is:
\* the text is what follows the L '#', and the size set is 16 for level 1, 15 for 2,
\* 12 for 5 and 11 for every level from 6 on, equal to 17 - L up to level 6 and never
\* under 11 or over 16.
C12_HeadingSizeByLevel ==
    (BlockRendered /\ StartsWithHash(req.block)) =>
        LET first == Strip(req.block[1])
            L == LeadingHashes(first)
            size == result.plan[1].size
        IN /\ result.plan[1].op = "set_font"
           /\ result.plan[1].bold
           /\ result.plan[2] = InsertText(Strip(SubSeq(first, L + 1, Len(first))))
           /\ size >= 11 /\ size <= 16
           /\ (L <= 6 => size = 17 - L)
           /\ (L = 1 => size = 16) /\ (L = 2 => size = 15) /\ (L = 5 => size = 12)
           /\ (L >= 6 => size = 11)

\* A heading of level 7, set at size 11.
C12_Witness ==
    /\ BlockRendered
    /\ req.block[1] = Hashes(7) \o << " ", "a" >>
    /\ result.plan[1] = SetFont(11, TRUE, FALSE)
    /\ result.plan[2] = InsertText(<< "a" >>)

IsBulletBlock(block) ==
    /\ ~StartsWithHash(block)
    /\ Strip(block[1]) # <<>>
    /\ Strip(block[1])[1] \in {"-", "*", Bullet}

\* The text a line of a bullet block is to be inserted as.
ExpectedBulletText(line) ==
    LET t == Strip(line)
    IN IF t[1] \in {"-", "*", Bullet}
       THEN << Bullet, " " >> \o Strip(SubSeq(t, 2, Len(t)))
       ELSE t

\* C13: a block whose first line starts with '-', '*' or the bullet character is
\* rendered at size 11 with every line as its own paragraph, in order; a line that
\* starts with one of the three loses exactly that one character, is trimmed and gets
\* the bullet and a space in front, any other line is inserted without a bullet.
C13_BulletBlockLinesAsParagraphs ==
    (BlockRendered /\ IsBulletBlock(req.block)) =>
        /\ Len(result.plan) = 2 * Len(req.block) + 2
        /\ result.plan[1] = SetFont(11, FALSE, FALSE)
        /\ \A k \in 1..Len(req.block) :
              /\ result.plan[2 * k] = InsertText(ExpectedBulletText(req.block[k]))
              /\ result.plan[2 * k + 1] = InsertParagraph
        /\ result.plan[Len(result.plan)] = InsertParagraph

\* "- a", "* b", bullet "c" give bullet a, bullet b, bullet c.
C13_Witness ==
    /\ BlockRendered
    /\ req.block = << << "-", " ", "a" >>, << "*", " ", "b" >>, << Bullet, "c" >> >>
    /\ result.plan[2].text = << Bullet, " ", "a" >>
    /\ result.plan[4].text = << Bullet, " ", "b" >>
    /\ result.plan[6].text = << Bullet, " ", "c" >>

\* The calls of plan after its last set_font.
AfterLastSetFont(plan) ==
    LET fonts == {k \in 1..Len(plan) : plan[k].op = "set_font"}
        last == CHOOSE k \in fonts : \A j \in fonts : j <= k
    IN SubSeq(plan, last + 1, Len(plan))

\* The calls insert every non-blank line of `lines` as it is, in order, each followed
\* by a paragraph break, with one paragraph break more for every blank line.
LineByLine(body, lines) ==
    LET texts == SelectSeq(body, LAMBDA c : c.op = "insert_text")
        kept == SelectSeq(lines, NonBlank)
    IN /\ \A k \in 1..Len(body) : body[k].op \in {"insert_text", "insert_paragraph"}
       /\ Len(texts) = Len(kept)
       /\ \A k \in 1..Len(kept) : texts[k].text = kept[k]
       /\ \A k \in 1..Len(body) :
             body[k].op = "insert_text"
                => (k < Len(body) /\ body[k + 1].op = "insert_paragraph")
       /\ Len(body) - Len(texts) = Len(lines)

\* C14 as stated, for a content that is not empty and an explicit title: with
\* preserve_linebreaks = false the content is not segmented and
\* no heading or bullet rule applies: after a last set_font every input line is
\* inserted as it is with its paragraph break, a blank line giving one break.
C14_NoPreservationSkipsSegmentation ==
    (Segmented /\ req.content # <<>> /\ Truthy(req.title) /\ ~req.preserve_linebreaks) =>
        /\ \E k \in 1..Len(result.plan) : result.plan[k].op = "set_font"
        /\ LineByLine(AfterLastSetFont(result.plan), result.lines)

\* C14: it is with format_content = false, whatever preserve_linebreaks is, that the
\* body is not segmented: size 11 is set and every input line is inserted as it is
\* with its paragraph break, a blank line giving one break.
C14_NoFormattingInsertsLineByLine ==
    (Segmented /\ ~req.format_content) =>
        /\ \E k \in 1..Len(result.plan) : result.plan[k] = SetFont(11, FALSE, FALSE)
        /\ LineByLine(AfterLastSetFont(result.plan), result.lines)

\* "#a", a blank line, "-a", unformatted: two texts as they are, three breaks.
C14_Witness ==
    /\ Segmented
    /\ ~req.format_content
    /\ req.content = << "#", NL, NL, "-" >>
    /\ AfterLastSetFont(result.plan)
          = << InsertText(<< "#" >>), InsertParagraph, InsertParagraph,
               InsertText(<< "-" >>), InsertParagraph >>

\* ===================================================== the table data tools
MaxDataLen == 4
MaxDataRows == 2

DataChars == {"[", "]", ",", " ", "1", "a", OneToTen, Vertical}

DataTexts == UNION {[1..n -> DataChars] : n \in 0..MaxDataLen}

SampleRows ==
    {PyInt(<< "1" >>), PyNone, PyStr(<< "a" >>), PyList(<<>>), PyList(<< PyNone >>),
     PyList(<< PyStr(<< "a" >>), PyInt(<< "1" >>) >>)}

DataLists == {PyList(rows) : rows \in UNION {[1..n -> SampleRows] : n \in 0..MaxDataRows}}

DataValues == {PyStr(text) : text \in DataTexts} \cup DataLists \cup {PyInt(<< "1" >>)}

Message(tool, message) == [tool |-> tool, status |-> "none", message |-> message]

\* hwp_mcp_stdio_server.py 1105-1205, start_row, start_col and has_header left at their
\* defaults: the session after the call, the message returned and the calls made.
FillTableData(s, data) ==
    LET tool == "hwp_fill_table_with_data"
        p == IF data.type = "list" THEN Value(data)
             ELSE IF data.type = "str" THEN ParseData(data.str)
             ELSE ParseError(<< "Error: ", "Unsupported data type: ", TypeName(data) >>)
    IN UNION {IF t.table_tools = 0
              THEN {[s |-> t.s, calls |-> <<>>,
                     result |-> Message(tool, << "Error: ",
                                                 "Failed to get table tools instance" >>)]}
              ELSE IF p.error
              THEN {[s |-> t.s, calls |-> <<>>, result |-> Message(tool, p.message)]}
              ELSE IF p.value.type # "list"
              THEN {[s |-> t.s, calls |-> <<>>,
                     result |-> Message(tool, << "Error: ", "Data must be a list, got " >>
                                                  \o TypeName(p.value))]}
              ELSE IF p.value.items = <<>>
              THEN {[s |-> t.s, calls |-> <<>>,
                     result |-> Message(tool, << "Error: ", "Empty data list" >>)]}
              ELSE {[s |-> t.s, calls |-> r.calls, result |-> Message(tool, r.message)]
                    : r \in TableToolsFillTableWithData(t.s.ctrls[t.table_tools],
                                                        FinalData(p.value))}
             : t \in GetHwpTableTools(s)}

\* hwp_mcp_stdio_server.py 417-437, data being a str: literal_eval is tried after a
\* JSONDecodeError; the TypeError of len() at 422 reaches the except at 435.
ParseCreateData(data) ==
    LET j == JsonLoads(data)
        l == LiteralEval(data)
    IN IF j.ok
       THEN IF HasLen(j.value) THEN Value(j.value)
            ELSE ParseError(<< "<table created but data parse error>" >>)
       ELSE IF l.ok THEN Value(l.value)
       ELSE ParseError(<< "<table created but JSON parse error>" >>)

\* hwp_mcp_stdio_server.py 377-471, has_header left at its default. Run("TableCellBlock")
\* raises or not, and only when it raises a table is inserted; insert_table and
\* fill_table_with_data of the table tools return messages, which are never false.
CreateTableWithData(s, rows, cols, data) ==
    LET tool == "hwp_create_table_with_data"
        p == IF data.type = "list" THEN Value(data)
             ELSE IF data.type = "str" THEN ParseCreateData(data.str)
             ELSE ParseError(<< "<table created but unsupported data type: >" >>
                                \o TypeName(data))
    IN UNION {IF t.table_tools = 0
              THEN {[s |-> t.s, calls |-> <<>>,
                     result |-> Message(tool, << "Error: ",
                                                 "Failed to get table tools instance" >>)]}
              ELSE LET c == t.s.ctrls[t.table_tools]
                       created == << "<table created (", ToString(rows), "x",
                                     ToString(cols), ")>" >>
                   IN UNION {IF data = PyNone
                             THEN {[s |-> t.s, calls |-> i.calls,
                                    result |-> Message(tool, created)]}
                             ELSE IF p.error
                             THEN {[s |-> t.s, calls |-> i.calls,
                                    result |-> Message(tool, p.message)]}
                             ELSE IF p.value.type # "list"
                             THEN {[s |-> t.s, calls |-> i.calls,
                                    result |-> Message(tool,
                                        << "<table created but the data is not a list: >" >>
                                            \o TypeName(p.value))]}
                             ELSE IF p.value.items = <<>>
                             THEN {[s |-> t.s, calls |-> i.calls,
                                    result |-> Message(tool,
                                        << "<table created but the data list is empty>" >>)]}
                             ELSE {[s |-> t.s, calls |-> i.calls \o r.calls,
                                    result |-> Message(tool,
                                        << "<table created and data entered (",
                                           ToString(rows), "x", ToString(cols), ")>" >>)]
                                   : r \in TableToolsFillTableWithData(
                                               c, FinalData(p.value))}
                            : i \in (IF c.hwp = "com" THEN {[calls |-> <<>>]} ELSE {})
                                    \cup TableToolsInsertTable(c, rows, cols)}
             : t \in GetHwpTableTools(s)}

TableSizes == {<< 1, 2 >>, << 2, 1 >>}

hwp_fill_table_with_data ==
    /\ pc = "idle"
    /\ \E data \in DataValues :
          /\ req' = [tool |-> "hwp_fill_table_with_data", data |-> data]
          /\ \E o \in FillTableData(Session, data) : Serve(o)

hwp_create_table_with_data ==
    /\ pc = "idle"
    /\ \E size \in TableSizes, data \in DataValues \cup {PyNone} :
          /\ req' = [tool |-> "hwp_create_table_with_data", rows |-> size[1],
                     cols |-> size[2], data |-> data]
          /\ \E o \in CreateTableWithData(Session, size[1], size[2], data) : Serve(o)

NextData == hwp_fill_table_with_data \/ hwp_create_table_with_data \/ Return

SpecData == InitServer /\ [][NextData]_vars

\* ---- claims about the table data tools
DataParsed(tool) == pc = "done" /\ req.tool = tool /\ hwp_table_tools # 0

\* The table handed to the controller's fill, when the call got that far.
FillReached == calls # <<>> /\ calls[Len(calls)].call.op = "fill_table_with_data"
FilledTable == calls[Len(calls)].call.data

HasComma(text) == \E k \in 1..Len(text) : text[k] = ","
HasPhrases(text) ==
    /\ \E k \in 1..Len(text) : text[k] = OneToTen
    /\ \E k \in 1..Len(text) : text[k] = Vertical

\* One row per piece between commas, in order, each the piece without the blanks
\* around it; without a comma the text itself as the only cell.
IsFallbackTable(table, text) ==
    LET commas == {k \in 1..Len(text) : text[k] = ","}
        bounds == {0} \cup commas \cup {Len(text) + 1}
        Piece(i) ==
            LET from == CHOOSE b \in bounds : Cardinality({c \in bounds : c < b}) = i - 1
                to == CHOOSE b \in bounds : Cardinality({c \in bounds : c < b}) = i
            IN SubSeq(text, from + 1, to - 1)
    IN /\ table.type = "list"
       /\ Len(table.items) = Cardinality(commas) + 1
       /\ \A i \in 1..Len(table.items) :
             /\ table.items[i].type = "list"
             /\ Len(table.items[i].items) = 1
             /\ table.items[i].items[1] =
                   PyStr(IF commas = {} THEN text ELSE Strip(Piece(i)))

\* C15 as stated: hwp_fill_table_with_data given a string that is neither JSON nor a
\* Python literal hands the fill the fallback table: one row per comma-separated
\* token, trimmed, in order, or the string itself as the only cell.
C15_NonLiteralStringFallsBack ==
    (DataParsed("hwp_fill_table_with_data") /\ req.data.type = "str"
        /\ ~JsonLoads(req.data.str).ok /\ ~LiteralEval(req.data.str).ok) =>
        /\ FillReached
        /\ IsFallbackTable(FilledTable, req.data.str)

\* C15: the same for a string that does not hold both phrases of the special case.
C15_NonLiteralStringWithoutPhrasesFallsBack ==
    (DataParsed("hwp_fill_table_with_data") /\ req.data.type = "str"
        /\ ~JsonLoads(req.data.str).ok /\ ~LiteralEval(req.data.str).ok
        /\ ~HasPhrases(req.data.str)) =>
        /\ FillReached
        /\ IsFallbackTable(FilledTable, req.data.str)

\* "a, 1" is split into the rows 'a' and '1'.
C15_Witness ==
    /\ DataParsed("hwp_fill_table_with_data")
    /\ req.data = PyStr(<< "a", ",", " ", "1" >>)
    /\ FillReached
    /\ FilledTable = PyList(<< PyList(<< PyStr(<< "a" >>) >>),
                               PyList(<< PyStr(<< "1" >>) >>) >>)

\* C16: for every string given to hwp_fill_table_with_data the parse chain ends with
\* a table that is not empty and is handed to the fill; no string makes the tool
\* return a parse or validation error instead.
C16_EveryStringReachesTheFill ==
    (DataParsed("hwp_fill_table_with_data") /\ req.data.type = "str") =>
        /\ FillReached
        /\ FilledTable.items # <<>>
        /\ ~StartsWithError(result.message)

\* ---- the table data of a batch
\* C17: a batch insert_table with data whose table was inserted hands the fill the
\* normalized data: a row that is not a list as a one-cell row, every cell as text,
\* a null cell as the empty string, the rows in their number and order.
C17_BatchTableDataIsNormalized ==
    (BatchDone /\ hwp # 0) =>
        \A i \in 1..Len(req.operations) :
            LET op == req.operations[i]
            IN (/\ OperationName(op) = "insert_table"
                /\ "data" \in DOMAIN op.params
                /\ \E k \in 1..Len(calls) :
                      calls[k].i = i /\ calls[k].call.op = "insert_table" /\ calls[k].ok)
               => \E k \in 1..Len(calls) :
                     /\ calls[k].i = i
                     /\ calls[k].call.op = "fill_table_with_data"
                     /\ calls[k].call.data = FinalData(op.params.data)

\* ---- the table element of a document
IsTableElement(element) == Get(element, "type", "") = "table"
ElementRows(element) == Get(Get(element, "properties", EmptyDict), "rows", 0)
ElementCols(element) == Get(Get(element, "properties", EmptyDict), "cols", 0)
ElementData(element) == Get(Get(element, "properties", EmptyDict), "data", PyList(<<>>))

\* C18: in a document built from elements, a table element with rows > 0, cols > 0
\* and data that is not empty has its table created and then filled with its data;
\* tables are created for the elements with rows > 0 and cols > 0 only. Stated for the
\* runs in which no controller call failed.
C18_TableElementIsCreatedAndFilled ==
    (RenderingCompleted /\ req.tool = "hwp_create_complete_document"
        /\ "special_type" \notin DOMAIN req.document_spec
        /\ \A k \in 1..Len(calls) : calls[k].ok) =>
        LET elements == req.document_spec.elements
            sized == {i \in 1..Len(elements) :
                         /\ IsTableElement(elements[i])
                         /\ ElementRows(elements[i]) > 0
                         /\ ElementCols(elements[i]) > 0}
        IN /\ Cardinality({k \in 1..Len(calls) : calls[k].call.op = "insert_table"})
                 = Cardinality(sized)
           /\ \A i \in sized :
                 PyTruthy(ElementData(elements[i])) =>
                     \E k \in 1..(Len(calls) - 1) :
                         /\ calls[k].call = InsertTable(ElementRows(elements[i]),
                                                        ElementCols(elements[i]))
                         /\ calls[k + 1].call.op = "fill_table_with_data"
                         /\ calls[k + 1].call.data = ElementData(elements[i])

\* ---- single cells
\* C19: in a batch on a connected controller, a set_table_cell_text with row >= 1 and
\* col >= 1 that follows the successful insert_table of a table holding that cell
\* writes the cell and its entry has status success.
C19_CellWriteInCreatedTableSucceeds ==
    (BatchDone /\ hwp # 0) =>
        \A i \in 1..Len(req.operations) :
            LET op == req.operations[i]
            IN (/\ OperationName(op) = "set_table_cell_text"
                /\ op.params.row >= 1
                /\ op.params.col >= 1
                /\ \E j \in 1..(i - 1) :
                      /\ OperationName(req.operations[j]) = "insert_table"
                      /\ req.operations[j].params.rows >= op.params.row
                      /\ req.operations[j].params.cols >= op.params.col
                      /\ \E k \in 1..Len(calls) :
                            /\ calls[k].i = j
                            /\ calls[k].call.op = "insert_table"
                            /\ calls[k].ok)
               => /\ result.results[i].status = "success"
                  /\ ~StartsWithError(result.results[i].message)

\* ------------------------------------------------------- the fill called twice
\* The caller repeats a fill that returned True, with the same arguments; the request
\* remembers how the first call left the backend.
FillAgain ==
    /\ pc = "done"
    /\ req.tool = "fill"
    /\ "first" \notin DOMAIN req
    /\ result.status = "True"
    /\ req' = req @@ [first |-> Backend]
    /\ pc' = "fill"
    /\ prog' = FillCalls(req.data, req.start_row, req.start_col, req.has_header)
    /\ result' = NoResult
    /\ calls' = <<>>
    /\ raised' = <<>>
    /\ swallowed' = 0
    /\ UNCHANGED <<session, hwp, backend>>

NextRefill == NextFill \/ FillAgain

SpecRefill == InitFill /\ [][NextRefill]_vars

\* C20: a fill with R x C data from (1, 1) on a fresh R x C table, called a second
\* time with the same data, leaves the cursor where the first call left it, and
\* every cell holds its value once.
C20_SecondFillEndsWhereTheFirstDid ==
    (/\ pc = "done"
     /\ "first" \in DOMAIN req
     /\ result.status = "True"
     /\ req.start_row = 1
     /\ req.start_col = 1
     /\ Len(req.data) = tableRows
     /\ \A i \in 1..Len(req.data) : Len(req.data[i]) = tableCols) =>
        /\ cursor = req.first.cursor
        /\ \A p \in DOMAIN cells :
              /\ Len(cells[p]) = 1
              /\ cells[p][1].i = p[1]
              /\ cells[p][1].j = p[2]

\* ---- the elements of a document, in order
\* How many controller calls one element makes.
CallsOfElement(element) ==
    LET element_type == Get(element, "type", "")
    IN IF element_type = "heading" THEN 3
       ELSE IF element_type = "text" THEN 2
       ELSE IF element_type = "paragraph" THEN 1
       ELSE IF element_type = "table" /\ ElementRows(element) > 0
                                      /\ ElementCols(element) > 0 THEN 1
       ELSE 0

\* The calls made before element i starts: create_new_document and the calls of the
\* elements before it.
RECURSIVE CallsBefore(_, _)
CallsBefore(elements, i) ==
    IF i = 1 THEN 1
    ELSE CallsBefore(elements, i - 1) + CallsOfElement(elements[i - 1])

ElementsRendered ==
    /\ RenderingCompleted
    /\ req.tool = "hwp_create_complete_document"
    /\ "special_type" \notin DOMAIN req.document_spec

\* C21: the calls of the elements follow each other in input order: the calls of
\* element i come right after those of the elements before it, a heading or text
\* inserting its content there; an element of unknown type makes no call, the later
\* elements are still rendered and the status is what the save alone decides.
C21_ElementsRenderedInInputOrder ==
    ElementsRendered =>
        LET elements == req.document_spec.elements
            n == Len(elements)
        IN /\ Len(calls) = CallsBefore(elements, n + 1)
                               + (IF SaveRequested THEN 1 ELSE 0)
           /\ \A i \in 1..n :
                 LET at == CallsBefore(elements, i)
                     element_type == Get(elements[i], "type", "")
                 IN /\ element_type = "heading" =>
                          /\ calls[at + 1].call.op = "set_font"
                          /\ calls[at + 2].call = InsertText(elements[i].content)
                          /\ calls[at + 3].call = InsertParagraph
                    /\ element_type = "text" =>
                          /\ calls[at + 1].call.op = "set_font"
                          /\ calls[at + 2].call = InsertText(elements[i].content)
                    /\ element_type = "paragraph" => calls[at + 1].call = InsertParagraph
                    /\ CallsOfElement(elements[i]) = 1 /\ element_type = "table" =>
                          calls[at + 1].call.op = "insert_table"
           /\ result.status = IF SaveRequested /\ ~calls[Len(calls)].ok
                              THEN "partial_success" ELSE "success"

\* An element of unknown type, then a heading: the heading is rendered.
C21_UnknownElementSkipped ==
    /\ ElementsRendered
    /\ Len(req.document_spec.elements) = 2
    /\ Get(req.document_spec.elements[1], "type", "") = "image"
    /\ Get(req.document_spec.elements[2], "type", "") = "heading"
    /\ Len(calls) = 4
    /\ calls[3].call = InsertText(<< "h" >>)
    /\ result.status = "success"

\* A heading, then a text.
C21_Witness ==
    /\ ElementsRendered
    /\ Len(req.document_spec.elements) = 2
    /\ Get(req.document_spec.elements[1], "type", "") = "heading"
    /\ Get(req.document_spec.elements[2], "type", "") = "text"
    /\ calls[3].call = InsertText(<< "h" >>)
    /\ calls[6].call = InsertText(<< "x" >>)

\* ---- the status of a batch entry
\* C22: every entry of the results of a batch has status 'success' or 'error'.
C22_EntryStatusIsSuccessOrError ==
    (BatchDone /\ hwp # 0) =>
        \A i \in 1..Len(result.results) :
            result.results[i].status \in {"success", "error"}

\* C23: when a controller call made for an insert_table or a get_text operation of a
\* batch fails, the entry of that operation has status 'error'.
C23_FailedPrimitiveGivesErrorEntry ==
    (BatchDone /\ hwp # 0) =>
        \A i \in 1..Len(req.operations) :
            (/\ OperationName(req.operations[i]) \in {"insert_table", "get_text"}
             /\ \E k \in 1..Len(calls) : calls[k].i = i /\ ~calls[k].ok)
            => result.results[i].status = "error"

\* ============================================================ CommandParser
MaxMembers == 2

TypeKey == << "t", "y", "p", "e" >>
ParamsKey == << "p", "a", "r", "a", "m", "s" >>

MemberKeys == {TypeKey, ParamsKey, << "x" >>}

MemberValues ==
    {PyInt(<< "1" >>), PyStr(<< "a" >>), PyNone, PyList(<<>>), PyDict(<<>>),
     PyDict(<< PyItem(<< "x" >>, PyInt(<< "1" >>)) >>)}

\* JSON objects of up to MaxMembers members with different keys.
Objects ==
    {PyDict(items) :
        items \in {m \in UNION {[1..n -> {PyItem(k, v) : k \in MemberKeys,
                                                         v \in MemberValues}]
                                : n \in 0..MaxMembers} :
                      \A a, b \in 1..Len(m) :
                          a # b => m[a].items[1] # m[b].items[1]}}

\* The texts handed to the parser: a JSON value written out, the same text without
\* its last character, which is no JSON text, and the object of the tests whose key
\* has no quotes.
CommandStrings ==
    {[text |-> JsonDumps(v), valid |-> TRUE, value |-> v]
        : v \in Objects \cup MemberValues}
    \cup {[text |-> SubSeq(JsonDumps(v), 1, Len(JsonDumps(v)) - 1), valid |-> FALSE,
           value |-> v] : v \in Objects \cup MemberValues}
    \cup {[text |-> << "{" >> \o TypeKey \o << ":", " ", Quote, "a", Quote, "}" >>,
           valid |-> FALSE, value |-> PyNone]}

ValueError(message) == [raised |-> "ValueError", message |-> message]

\* Mutant of Parse: the params of a command are not looked at.
ParseAnyParams(command_string) ==
    LET j == JsonLoadsCommand(command_string)
        command == j.value
    IN IF ~j.ok
       THEN ValueError(<< "Invalid JSON format: ", "<JSONDecodeError>" >>)
       ELSE IF command.type # "dict"
       THEN ValueError(<< "Error parsing command: ", "Command must be a JSON object" >>)
       ELSE IF ~HasKey(command, TypeKey)
       THEN ValueError(<< "Error parsing command: ",
                          "Command must have a 'type' field" >>)
       ELSE [raised |-> "none", command |-> command]

\* command_parser.py 18-51: the command returned or the exception raised. A
\* ValueError raised in the try block is caught at line 50 and raised again behind
\* the prefix 'Error parsing command: '.
Parse(command_string) ==
    LET j == JsonLoadsCommand(command_string)
        command == j.value
    IN IF ~j.ok
       THEN ValueError(<< "Invalid JSON format: ", "<JSONDecodeError>" >>)
       ELSE IF command.type # "dict"
       THEN ValueError(<< "Error parsing command: ", "Command must be a JSON object" >>)
       ELSE IF ~HasKey(command, TypeKey)
       THEN ValueError(<< "Error parsing command: ",
                          "Command must have a 'type' field" >>)
       ELSE IF HasKey(command, ParamsKey) /\ Lookup(command, ParamsKey).type # "dict"
       THEN ValueError(<< "Error parsing command: ",
                          "Command params must be a JSON object" >>)
       ELSE [raised |-> "none", command |-> command]

InitCommand ==
    /\ ctrls = <<>>
    /\ hwp_controller = 0
    /\ hwp_table_tools = 0
    /\ hwp = 0
    /\ pc = "idle"
    /\ \E c \in CommandStrings : req = [tool |-> "parse"] @@ c
    /\ result = NoResult
    /\ NoFill
    /\ NoTable

CommandParserParse ==
    /\ pc = "idle"
    /\ req.tool = "parse"
    /\ pc' = "done"
    /\ result' = [tool |-> "parse"] @@ Parse(req.text)
    /\ UNCHANGED <<session, hwp, req, prog, calls, raised, swallowed, backend>>

NextCommand == CommandParserParse

SpecCommand == InitCommand /\ [][NextCommand]_vars

\* ---- claims about the parser
CommandParsed == pc = "done" /\ req.tool = "parse"

Contains(message, piece) == \E k \in 1..Len(message) : message[k] = piece

\* The value the text was written from has a member with this key.
Has(v, key) == \E k \in 1..Len(v.items) : v.items[k].items[1] = PyStr(key)
ValueOf(v, key) ==
    v.items[CHOOSE k \in 1..Len(v.items) : v.items[k].items[1] = PyStr(key)].items[2]

\* C24: parse returns the decoded command exactly when the text is valid JSON for an
\* object that has a 'type' key and whose 'params', if present, is an object; for
\* every other text it raises ValueError, the message holding 'Invalid JSON format',
\* 'Command must be a JSON object', "Command must have a 'type' field" or
\* 'Command params must be a JSON object' respectively.
C24_ParseReturnsCommandOrRaisesValueError ==
    CommandParsed =>
        IF ~req.valid
        THEN /\ result.raised = "ValueError"
             /\ Contains(result.message, "Invalid JSON format: ")
        ELSE IF req.value.type # "dict"
        THEN /\ result.raised = "ValueError"
             /\ Contains(result.message, "Command must be a JSON object")
        ELSE IF ~Has(req.value, TypeKey)
        THEN /\ result.raised = "ValueError"
             /\ Contains(result.message, "Command must have a 'type' field")
        ELSE IF Has(req.value, ParamsKey) /\ ValueOf(req.value, ParamsKey).type # "dict"
        THEN /\ result.raised = "ValueError"
             /\ Contains(result.message, "Command params must be a JSON object")
        ELSE /\ result.raised = "none"
             /\ result.command = req.value
             /\ (Has(result.command, ParamsKey) <=> Has(req.value, ParamsKey))

\* {"type": "a"} is returned as it is, without a params key.
C24_Witness ==
    /\ CommandParsed
    /\ req.text = << "{", Quote >> \o TypeKey \o << Quote, ":", " ", Quote, "a", Quote, "}" >>
    /\ result.raised = "none"
    /\ result.command = PyDict(<< PyItem(TypeKey, PyStr(<< "a" >>)) >>)
    /\ ~Has(result.command, ParamsKey)

\* ---- the backend session
\* C25: no tool call connects to the backend or disconnects from it: the server, which
\* starts without a session, never holds a controller that reached the backend, and
\* no call is a disconnect.
C25_EngineNeverConnectsOrDisconnects ==
    /\ \A k \in 1..Len(ctrls) : ctrls[k].hwp = "None" /\ ~ctrls[k].is_hwp_running
    /\ \A k \in 1..Len(calls) : calls[k].call.op # "disconnect"

\* ---- the width of the table
\* C26: during a fill no TableRightCell is issued while the cursor is in the last
\* column of the table, and the text of data cell (i, j) is written in the row of
\* data row i only.
C26_NoMoveRightInLastColumn ==
    /\ \A k \in 1..Len(calls) :
          (req.tool = "fill" /\ calls[k].op = "TableRightCell" /\ InTable(calls[k].at))
              => calls[k].at.c < tableCols
    /\ \A p \in DOMAIN cells : \A k \in 1..Len(cells[p]) :
          (req.tool = "fill" /\ cells[p][k] # OldText)
              => p[1] = req.start_row + cells[p][k].i - 1

\* ---- the interpretation path of a document spec
DocumentCreated ==
    /\ Built
    /\ req.tool = "hwp_create_complete_document"
    /\ calls # <<>>
    /\ calls[1].call.op = "create_new_document"
    /\ calls[1].ok

\* The calls made after create_new_document and before the save.
RenderedCalls ==
    LET last == IF calls[Len(calls)].call.op = "save_document"
                THEN Len(calls) - 1 ELSE Len(calls)
    IN [k \in 1..(last - 1) |-> calls[k + 1].call]

\* C27: one interpretation path runs for a document spec. With special_type present
\* the named template is rendered and the elements are not interpreted; otherwise the
\* elements, if present, are rendered; a spec with neither key or with an unknown
\* special type name gives status 'error' and renders nothing.
C27_OneInterpretationPath ==
    DocumentCreated =>
        LET spec == req.document_spec
            name == Get(Get(spec, "special_type", EmptyDict), "type", "")
            params == Get(Get(spec, "special_type", EmptyDict), "params", EmptyDict)
        IN IF "special_type" \in DOMAIN spec
           THEN IF name = "report"
                THEN RenderedCalls = ReportPlan(params) /\ result.status # "error"
                ELSE IF name = "letter"
                THEN RenderedCalls = LetterPlan(params) /\ result.status # "error"
                ELSE Len(calls) = 1 /\ result.status = "error"
           ELSE IF "elements" \in DOMAIN spec
           THEN /\ RenderedCalls = ElementsPlan(spec.elements)
                /\ result.status # "error"
           ELSE Len(calls) = 1 /\ result.status = "error"

\* A spec with a report and an element: the report is rendered, the paragraph
\* element is not.
C27_Witness ==
    /\ DocumentCreated
    /\ "special_type" \in DOMAIN req.document_spec
    /\ "elements" \in DOMAIN req.document_spec
    /\ req.document_spec.elements = << [type |-> "paragraph"] >>
    /\ RenderedCalls = ReportPlan(EmptyDict)
    /\ RenderedCalls # << InsertParagraph >>
    /\ result.status = "success"

\* ---- operations with invalid parameters
Param(op, key, default) == Get(Get(op, "params", EmptyDict), key, default)

\* The parameter tests of lines 892, 921, 989, 1014 and 1033, read off the operation.
InvalidParams(op) ==
    LET name == OperationName(op)
    IN \/ name = "open" /\ Param(op, "path", <<>>) = <<>>
       \/ name = "insert_text" /\ Param(op, "text", <<>>) = <<>>
       \/ name = "insert_table"
          /\ (Param(op, "rows", 0) <= 0 \/ Param(op, "cols", 0) <= 0)
       \/ name = "set_table_cell_text"
          /\ (Param(op, "row", 0) <= 0 \/ Param(op, "col", 0) <= 0)
       \/ name = "merge_table_cells"
          /\ \E k \in {"start_row", "start_col", "end_row", "end_col"} :
                Param(op, k, 0) <= 0

\* C28: a batch operation with invalid parameters (open without a path, insert_text
\* without text, insert_table with rows or cols <= 0, set_table_cell_text with row or
\* col <= 0, merge_table_cells with a coordinate <= 0) gives an entry with status
\* 'error' and makes no call to the controller.
C28_InvalidParamsGiveErrorWithoutCall ==
    BatchDone /\ "results" \in DOMAIN result =>
        \A i \in 1..Len(result.results) :
            (Get(req.operations[i], "params", EmptyDict) # None
             /\ InvalidParams(req.operations[i]))
            => /\ result.results[i].status = "error"
               /\ \A k \in 1..Len(calls) : calls[k].i # i

\* A table of zero rows is refused and the table inserted after it is the only call.
C28_Witness ==
    /\ BatchDone
    /\ "results" \in DOMAIN result
    /\ Len(result.results) = 2
    /\ OperationName(req.operations[1]) = "insert_table"
    /\ Param(req.operations[1], "rows", 0) = 0
    /\ result.results[1].status = "error"
    /\ result.results[1].message = << "Valid rows and cols are required" >>
    /\ OperationName(req.operations[2]) = "insert_table"
    /\ result.results[2].status = "success"
    /\ Len(calls) = 1
    /\ calls[1].i = 2

\* ---- the batch insert_text operation on texts with line separators
MaxInsertLen == 4

InsertChars == {"a", "n", "\\", NL}

InsertTexts == UNION {[1..k -> InsertChars] : k \in 0..MaxInsertLen}

InsertTextLists ==
    {<< [operation |-> "insert_text", params |-> [text |-> t] @@ o] >>
     : t \in InsertTexts,
       o \in {EmptyDict, [preserve_linebreaks |-> TRUE], [preserve_linebreaks |-> FALSE]}}

\* hwp_mcp_stdio_server.py 869-874: a batch of one insert_text operation.
hwp_batch_insert_text ==
    /\ pc = "idle"
    /\ \E operations \in InsertTextLists, g \in GetHwpController(Session) :
          /\ req' = [tool |-> "hwp_batch_operations", operations |-> operations]
          /\ SetSession(g.s)
          /\ hwp' = g.hwp
          /\ IF g.hwp = 0
             THEN /\ pc' = "done"
                  /\ prog' = <<>>
                  /\ result' = Result("error", << "Failed to connect to HWP program" >>)
             ELSE /\ pc' = "batch"
                  /\ prog' = operations
                  /\ result' = [status |-> "none", results |-> <<>>]
    /\ calls' = <<>>
    /\ UNCHANGED <<raised, swallowed, backend>>

NextInsertText == hwp_batch_insert_text \/ BatchOperation \/ BatchReturn \/ Return

SpecInsertText == InitServer /\ [][NextInsertText]_vars

\* The segments of a text between its separators, a separator being a newline or a
\* backslash followed by n, read from the left.
RECURSIVE Segments(_, _)
Segments(text, current) ==
    IF text = <<>> THEN << current >>
    ELSE IF Head(text) = NL THEN << current >> \o Segments(Tail(text), <<>>)
    ELSE IF Len(text) >= 2 /\ text[1] = "\\" /\ text[2] = "n"
    THEN << current >> \o Segments(Tail(Tail(text)), <<>>)
    ELSE Segments(Tail(text), Append(current, Head(text)))

InsertTextDone ==
    /\ BatchDone
    /\ "results" \in DOMAIN result
    /\ Len(req.operations) = 1
    /\ OperationName(req.operations[1]) = "insert_text"
    /\ Param(req.operations[1], "preserve_linebreaks", TRUE)

\* C29: insert_text with preserve_linebreaks on a text with n >= 1 separators calls
\* insert_text for the n + 1 segments in order, with one insert_paragraph between two
\* segments and none after the last; when the insert of a segment returns False no
\* later call is made and the entry's status is 'error'.
C29_SegmentsInsertedInOrderUntilFailure ==
    InsertTextDone =>
        LET segs == Segments(Param(req.operations[1], "text", <<>>), <<>>)
            n == Len(segs) - 1
            last == Len(calls)
        IN n >= 1 =>
              /\ last >= 1
              /\ last <= 2 * n + 1
              /\ last % 2 = 1
              /\ \A j \in 1..last :
                    IF j % 2 = 1
                    THEN /\ calls[j].call = InsertText(segs[(j + 1) \div 2])
                         /\ j < last => calls[j].ok
                    ELSE calls[j].call = InsertParagraph
              /\ IF calls[last].ok
                 THEN last = 2 * n + 1 /\ result.results[1].status = "success"
                 ELSE result.results[1].status = "error"

\* 'a\nb' with the separator written as backslash and n: a is inserted, the paragraph
\* break made, the insert of b fails.
C29_Witness ==
    /\ InsertTextDone
    /\ req.operations[1].params.text = << "a", "\\", "n", "a" >>
    /\ Len(calls) = 3
    /\ calls[1].call = InsertText(<< "a" >>)
    /\ calls[1].ok
    /\ calls[2].call = InsertParagraph
    /\ calls[3].call = InsertText(<< "a" >>)
    /\ ~calls[3].ok
    /\ result.results[1].status = "error"

\* ---- the backend calls of a block
\* hwp_controller.py 192-209: the InsertText action of the backend.
InsertTextDirect(text) == PCall("_insert_text_direct", 0, FALSE, FALSE, text, 0, 0)

\* Mutant of ControllerInsertText: a text with line breaks is inserted as one unit.
ControllerInsertTextWhole(text) == << InsertTextDirect(text) >>

\* hwp_controller.py 146-175: insert_text with its default preserve_linebreaks = True
\* on a running controller. A text with newlines is split, a paragraph break made
\* before every line but the first and every non-blank line inserted.
ControllerInsertText(text) ==
    IF HasNewline(text)
    THEN LET lines == SplitLines(text)
         IN Flatten([i \in 1..Len(lines) |->
                       (IF i > 1 THEN << InsertParagraph >> ELSE <<>>)
                       \o (IF Strip(lines[i]) # <<>>
                           THEN << InsertTextDirect(lines[i]) >> ELSE <<>>)])
    ELSE << InsertTextDirect(text) >>

\* The backend calls a plan of controller calls comes to on a running controller:
\* insert_paragraph is BreakPara (506), set_font one character shape action.
BackendCalls(plan) ==
    Flatten([k \in 1..Len(plan) |->
               IF plan[k].op = "insert_text" THEN ControllerInsertText(plan[k].text)
               ELSE << plan[k] >>])

BreaksIn(seq) == Cardinality({k \in 1..Len(seq) : seq[k] = InsertParagraph})

IsPlainBlock(block) ==
    LET first_line == Strip(block[1])
    IN ~(first_line # <<>> /\ Head(first_line) = "#") /\ ~StartsWithBullet(first_line)

InsertsIn(plan) ==
    Cardinality({k \in 1..Len(BackendCalls(plan)) :
                    BackendCalls(plan)[k].op = "_insert_text_direct"})

NonBlankLines(content) ==
    Cardinality({k \in 1..Len(SplitLines(content)) : NonBlank(SplitLines(content)[k])})

\* C31: whatever title, format_content and preserve_linebreaks are, every non-blank
\* line of the content is inserted once, as the title or in the body: the inserts made
\* are one per non-blank line, and one more for a title given by the caller.
C31_EveryLineInsertedOnce ==
    Segmented =>
        InsertsIn(result.plan)
        = NonBlankLines(req.content) + (IF Truthy(req.title) THEN 1 ELSE 0)

\* ---- the controller a tool call works on
\* hwp_batch_operations has its controller and has not run an operation yet.
ControllerObtained ==
    /\ req.tool = "hwp_batch_operations"
    /\ pc = "batch"
    /\ result.results = <<>>

\* C32: the controller get_hwp_controller returns to a tool call is connected, also
\* when an earlier call's connection attempt failed: is_hwp_running is true.
C32_ControllerObtainedIsConnected ==
    ControllerObtained => ctrls[hwp].is_hwp_running

\* ---- the table tools between tool calls
\* C33: between two tool calls the table tools, when there are any, hold the current
\* controller of the server and that controller is connected; after a close no table
\* tools are left that hold the closed controller.
C33_TableToolsHoldCurrentController ==
    (pc = "idle" /\ hwp_table_tools # 0) =>
        /\ hwp_table_tools = hwp_controller
        /\ ctrls[hwp_table_tools].is_hwp_running

\* ---- operations after a close
\* Operation j of the batch runs after a close that succeeded, with no create or open
\* that succeeded in between.
AfterClose(j) ==
    \E i \in 1..(j - 1) :
        /\ OperationName(req.operations[i]) = "close"
        /\ result.results[i].status = "success"
        /\ \A k \in (i + 1)..(j - 1) :
              ~(/\ OperationName(req.operations[k]) \in {"create", "open"}
                /\ result.results[k].status = "success")

\* C34: in a batch, after a close that succeeded and until a create or open succeeds,
\* every operation other than create and open has status 'error'.
C34_OperationsAfterCloseFail ==
    BatchDone /\ "results" \in DOMAIN result =>
        \A j \in 1..Len(result.results) :
            (AfterClose(j) /\ OperationName(req.operations[j]) \notin {"create", "open"})
            => result.results[j].status = "error"

\* ---- bold in a fill with a header row
\* C35: in a fill with has_header, bold is on only while a cell of the first data row
\* is written: every value of a later row is written with bold off, and when the fill
\* has returned, with True or with False, bold is off in the backend.
C35_BoldOnlyInHeaderRow ==
    (IsFill /\ req.has_header /\ pc \in {"fill", "done"}) =>
        /\ \A r \in 1..tableRows, c \in 1..tableCols :
              \A k \in 1..Len(cells[<<r, c>>]) :
                  cells[<<r, c>>][k].i >= 2 => ~cells[<<r, c>>][k].b
        /\ pc = "done" => ~bold

\* ---- the controller by itself
MaxCalls == 4

\* One call of a controller method: what it returned, whether it reached the backend,
\* and the controller before and after it.
Called(op, ok, touched, before, after) ==
    [op |-> op, ok |-> ok, touched |-> touched, before |-> before, after |-> after]

\* hwp_controller.py 63-69: disconnect drops the backend object of a running
\* controller and returns True.
HwpDisconnect(c) == IF c.is_hwp_running THEN NewController ELSE c

\* hwp_controller.py 124-125, 157-158, 267-268, 336-337, 503-504: a method that
\* returns False at once when the controller is not running; otherwise its backend
\* call returns or raises.
Guarded(c) ==
    IF c.is_hwp_running THEN {[ok |-> b, touched |-> TRUE] : b \in BOOLEAN}
    ELSE {[ok |-> FALSE, touched |-> FALSE]}

GuardedMethods ==
    {"save_document", "insert_text", "set_font_style", "insert_table", "insert_paragraph"}

InitController ==
    /\ ctrls = << NewController >>
    /\ hwp_controller = 1
    /\ hwp_table_tools = 0
    /\ hwp = 1
    /\ pc = "controller"
    /\ req = NoReq
    /\ result = NoResult
    /\ NoFill
    /\ NoTable

CallMade(op, ok, touched, after) ==
    /\ pc = "controller"
    /\ Len(calls) < MaxCalls
    /\ calls' = Append(calls, Called(op, ok, touched, ctrls[1], after))
    /\ ctrls' = << after >>
    /\ UNCHANGED <<hwp_controller, hwp_table_tools, hwp, pc, req, result, prog, raised,
                   swallowed, backend>>

\* hwp_controller.py 24-54
HwpController_connect ==
    \E o \in Connect(ctrls[1]) : CallMade("connect", o.ok, TRUE, o.c)

\* hwp_controller.py 56-72
HwpController_disconnect ==
    CallMade("disconnect", TRUE, FALSE, HwpDisconnect(ctrls[1]))

\* hwp_controller.py 74-90
HwpController_create_new_document ==
    \E n \in Reconnecting(ctrls[1]) : CallMade("create_new_document", n.ok, TRUE, n.c)

\* hwp_controller.py 92-112
HwpController_open_document ==
    \E n \in Reconnecting(ctrls[1]) : CallMade("open_document", n.ok, TRUE, n.c)

\* hwp_controller.py 114-144
HwpController_save_document ==
    \E g \in Guarded(ctrls[1]) : CallMade("save_document", g.ok, g.touched, ctrls[1])

\* hwp_controller.py 146-175
HwpController_insert_text ==
    \E g \in Guarded(ctrls[1]) : CallMade("insert_text", g.ok, g.touched, ctrls[1])

\* hwp_controller.py 249-304
HwpController_set_font_style ==
    \E g \in Guarded(ctrls[1]) : CallMade("set_font_style", g.ok, g.touched, ctrls[1])

\* hwp_controller.py 324-358
HwpController_insert_table ==
    \E g \in Guarded(ctrls[1]) : CallMade("insert_table", g.ok, g.touched, ctrls[1])

\* hwp_controller.py 495-510
HwpController_insert_paragraph ==
    \E g \in Guarded(ctrls[1]) : CallMade("insert_paragraph", g.ok, g.touched, ctrls[1])

NextController ==
    \/ HwpController_connect
    \/ HwpController_disconnect
    \/ HwpController_create_new_document
    \/ HwpController_open_document
    \/ HwpController_save_document
    \/ HwpController_insert_text
    \/ HwpController_set_font_style
    \/ HwpController_insert_table
    \/ HwpController_insert_paragraph

SpecController == InitController /\ [][NextController]_vars

\* C36: whatever calls were made and however the backend failed, a running controller
\* has a backend object; disconnect returns True, leaves the controller not running
\* and changes nothing when called again; and save_document, insert_text,
\* set_font_style, insert_table and insert_paragraph on a controller that is not
\* running return False without reaching the backend.
C36_ControllerStateIsConsistent ==
    pc = "controller" =>
        /\ ctrls[1].is_hwp_running => ctrls[1].hwp # "None"
        /\ \A k \in 1..Len(calls) :
              /\ calls[k].op = "disconnect" =>
                    /\ calls[k].ok
                    /\ ~calls[k].after.is_hwp_running
                    /\ HwpDisconnect(calls[k].after) = calls[k].after
                    /\ (k > 1 /\ calls[k - 1].op = "disconnect")
                       => calls[k].after = calls[k].before
              /\ (calls[k].op \in GuardedMethods /\ ~calls[k].before.is_hwp_running) =>
                    /\ ~calls[k].ok
                    /\ ~calls[k].touched
                    /\ calls[k].after = calls[k].before

\* A connect that fails after the dispatch, a save refused, and two disconnects: the
\* backend object stays with the controller, which never ran.
C36_Witness ==
    /\ pc = "controller"
    /\ Len(calls) = 4
    /\ calls[1].op = "connect"
    /\ ~calls[1].ok
    /\ calls[1].after = [is_hwp_running |-> FALSE, hwp |-> "com"]
    /\ calls[2].op = "save_document"
    /\ ~calls[2].ok
    /\ ~calls[2].touched
    /\ calls[3].op = "disconnect"
    /\ calls[4].op = "disconnect"
    /\ calls[4].ok
    /\ ctrls[1] = calls[1].after

====
